---- MODULE Spec2Model ----
(***************************************************************************)
(* A model of the winston_logger_rs transports.                            *)
(*                                                                         *)
(* The repository is a set of independent sinks and wrappers.  Each one is *)
(* modelled by its own group of variables and its own specification; a     *)
(* specification leaves the variables of the other groups at their idle    *)
(* values.                                                                 *)
(*                                                                         *)
(*   SpecBatch     BatchedTransport     winston_transport/batch_transport  *)
(*   SpecThreaded  ThreadedTransport    winston_transport/threaded_...     *)
(*   SpecFile      FileTransport        winston_file/lib.rs                *)
(*   SpecRotate    DailyRotateFile      winston_daily_rotate_file          *)
(*   SpecRotateSeq DailyRotateFile with a single writer                    *)
(*   SpecRotateDir DailyRotateFile with a single writer and dirname set    *)
(***************************************************************************)
EXTENDS Integers, Sequences, FiniteSets, TLC

\* ---------------------------------------------------------------- helpers

Range(s) == { s[i] : i \in DOMAIN s }

RECURSIVE Flatten(_)
Flatten(ss) == IF ss = <<>> THEN <<>> ELSE Head(ss) \o Flatten(Tail(ss))

\* index of the first occurrence of x in s, 0 when absent
IndexOf(s, x) ==
    IF \E i \in DOMAIN s : s[i] = x
    THEN CHOOSE i \in DOMAIN s : s[i] = x /\ \A j \in 1..(i-1) : s[j] # x
    ELSE 0

NoDup(s) == \A i, j \in DOMAIN s : i # j => s[i] # s[j]

\* =========================================================================
\* BatchedTransport (winston_transport/src/batch_transport.rs)
\* =========================================================================

\* bounds of the BatchedTransport model
BtMaxLogs == 2        \* log() calls made in one run
BtMaxClones == 1      \* clones made of the original handle
BtMaxCalls == 1       \* flush()/query() calls made in one run

\* configuration used by the model (BatchConfig)
BtMaxBatchSize == 2   \* max_batch_size
BtMaxBatchTime == 1   \* max_batch_time, in clock ticks

\* the values of max_batch_size the model runs with
BtBatchSizes == {BtMaxBatchSize, BtMaxBatchSize + 1}

BtOriginal == 0
BtHandles == 0..BtMaxClones

VARIABLES
    btFlushOnDrop,  \* config.flush_on_drop
    btSize,         \* config.max_batch_size
    btGap,          \* time passed between the first log() call and the second
    btAge,          \* how long the oldest record of `batch` has been in it, saturated
    btSwallowed,    \* a flush_batch whose result is discarded (`let _ =`) has failed
    btChan,         \* the mpsc channel: messages sent and not yet received
    btBatch,        \* the worker's local `batch`
    btElapsed,      \* last_flush.elapsed(), saturated at BtMaxBatchTime
    btWorker,       \* "running" | "exited" (the receiver is dropped on exit)
    btDelivered,    \* the batches handed to transport.log_batch, in order
    btHandle,       \* per handle: "none" | "idle" | "waitFlush" | "waitQuery" | "joining" | "joined" | "gone"
    btLogs,         \* per handle: the records whose log() call has returned
    btNext,         \* number of log() calls made so far (records are numbered)
    btCalls,        \* number of flush()/query() calls made so far
    btSnap,         \* per handle: the records logged before the pending call was made
    btReply         \* per handle: the reply the worker sent on the response channel

btConf == <<btFlushOnDrop, btSize>>

btVars == <<btFlushOnDrop, btSize, btGap, btAge, btSwallowed, btChan, btBatch, btElapsed, btWorker, btDelivered,
            btHandle, btLogs, btNext, btCalls, btSnap, btReply>>

BtNoReply == [res |-> "none", seen |-> {}, drainErr |-> FALSE, queryErr |-> FALSE]

BtDeliveredSet == Range(Flatten(btDelivered))
BtAllLogged == UNION { Range(btLogs[h]) : h \in BtHandles }

BtInitWith(sizes) ==
    /\ btFlushOnDrop \in BOOLEAN
    /\ btSize \in sizes
    /\ btGap = FALSE
    /\ btAge = 0
    /\ btSwallowed = FALSE
    /\ btChan = <<>>
    /\ btBatch = <<>>
    /\ btElapsed = 0
    /\ btWorker = "running"
    /\ btDelivered = <<>>
    /\ btHandle = [h \in BtHandles |-> IF h = BtOriginal THEN "idle" ELSE "none"]
    /\ btLogs = [h \in BtHandles |-> <<>>]
    /\ btNext = 0
    /\ btCalls = 0
    /\ btSnap = [h \in BtHandles |-> {}]
    /\ btReply = [h \in BtHandles |-> BtNoReply]

\* a batch the bounded run can fill
BtInit == BtInitWith({BtMaxBatchSize})

\* also a batch too large for the run to fill: only time can drain it
BtInitTimed == BtInitWith(BtBatchSizes)

BtIdle ==
    /\ btFlushOnDrop = FALSE
    /\ btSize = 0
    /\ btGap = FALSE
    /\ btAge = 0
    /\ btSwallowed = FALSE
    /\ btChan = <<>>
    /\ btBatch = <<>>
    /\ btElapsed = 0
    /\ btWorker = "exited"
    /\ btDelivered = <<>>
    /\ btHandle = [h \in BtHandles |-> "none"]
    /\ btLogs = [h \in BtHandles |-> <<>>]
    /\ btNext = 0
    /\ btCalls = 0
    /\ btSnap = [h \in BtHandles |-> {}]
    /\ btReply = [h \in BtHandles |-> BtNoReply]

\* --- the worker thread: run_batch_thread ---------------------------------

\* the closure flush_batch: a non-empty batch is handed to transport.log_batch
\* as one call (transport.flush follows); an empty batch does nothing
BtFlushBatchOnlyFull(batch, delivered) ==
    IF Len(batch) >= BtMaxBatchSize THEN Append(delivered, batch) ELSE delivered

BtFlushBatch(batch, delivered) ==
    IF batch # <<>> THEN Append(delivered, batch) ELSE delivered

\* batch.push(info)
BtPushFront(batch, info) == <<info>> \o batch

BtPush(batch, info) == Append(batch, info)

\* the result of flush_batch: Ok(()) for an empty batch, else what the inner
\* transport's flush returns (innerOk is the inner transport's answer)
BtFlushResultSwallowed(batch, innerOk) == "ok"

BtFlushResult(batch, innerOk) ==
    IF batch = <<>> \/ innerOk THEN "ok" ELSE "innerErr"

BtDrain ==
    /\ btDelivered' = BtFlushBatch(btBatch, btDelivered)
    /\ btBatch' = <<>>
    /\ btAge' = 0

\* `let _ = flush_batch(&mut batch)`: the result is dropped where it is produced
BtDiscard(batch) ==
    \E innerOk \in BOOLEAN :
        btSwallowed' = (btSwallowed \/ BtFlushResult(batch, innerOk) = "innerErr")

\* the reply of the Query arm: what transport.query returned
BtQueryResult(queryOk) == IF queryOk THEN "ok" ELSE "innerErr"

\* batch.len() >= config.max_batch_size
BtBatchOverfull(batch) == Len(batch) > btSize

BtBatchFull(batch) == Len(batch) >= btSize

\* Ok(BatchMessage::Log(info))
BtRecvLog ==
    /\ btWorker = "running"
    /\ btChan # <<>>
    /\ Head(btChan).type = "Log"
    /\ btChan' = Tail(btChan)
    /\ LET pushed == BtPush(btBatch, Head(btChan).rec) IN
       IF BtBatchFull(pushed)
       THEN /\ btDelivered' = BtFlushBatch(pushed, btDelivered)
            /\ btBatch' = <<>>
            /\ btElapsed' = 0
            /\ btAge' = 0
            /\ BtDiscard(pushed)
       ELSE /\ btBatch' = pushed
            /\ btAge' = (IF btBatch = <<>> THEN 0 ELSE btAge)
            /\ UNCHANGED <<btDelivered, btElapsed, btSwallowed>>
    /\ UNCHANGED <<btConf, btGap, btWorker, btHandle, btLogs, btNext, btCalls,
                   btSnap, btReply>>

\* Ok(BatchMessage::Flush(response_sender)): the reply is flush_batch's result
BtRecvFlush ==
    /\ btWorker = "running"
    /\ btChan # <<>>
    /\ Head(btChan).type = "Flush"
    /\ btChan' = Tail(btChan)
    /\ BtDrain
    /\ btElapsed' = 0
    /\ \E innerOk \in BOOLEAN :
         btReply' = [btReply EXCEPT ![Head(btChan).from] =
                        [res |-> BtFlushResult(btBatch, innerOk), seen |-> {},
                         drainErr |-> (btBatch # <<>> /\ ~innerOk),
                         queryErr |-> FALSE]]
    /\ UNCHANGED <<btConf, btGap, btSwallowed, btWorker, btHandle, btLogs, btNext, btCalls,
                   btSnap>>

\* Ok(BatchMessage::Query(query, response_sender)): `seen` is what the inner
\* transport has been handed when transport.query is called on it
BtRecvQuery ==
    /\ btWorker = "running"
    /\ btChan # <<>>
    /\ Head(btChan).type = "Query"
    /\ btChan' = Tail(btChan)
    /\ BtDrain
    /\ btElapsed' = 0
    /\ BtDiscard(btBatch)
    /\ \E queryOk \in BOOLEAN :
         btReply' = [btReply EXCEPT ![Head(btChan).from] =
                        [res |-> BtQueryResult(queryOk),
                         seen |-> Range(Flatten(btDelivered')),
                         drainErr |-> FALSE,
                         queryErr |-> ~queryOk]]
    /\ UNCHANGED <<btConf, btGap, btWorker, btHandle, btLogs, btNext, btCalls,
                   btSnap>>

\* Ok(BatchMessage::Shutdown): drain and leave the loop; the receiver is
\* dropped with whatever is still queued behind the Shutdown message
BtRecvShutdown ==
    /\ btWorker = "running"
    /\ btChan # <<>>
    /\ Head(btChan).type = "Shutdown"
    /\ BtDrain
    /\ BtDiscard(btBatch)
    /\ btWorker' = "exited"
    /\ btChan' = <<>>
    /\ UNCHANGED <<btConf, btGap, btElapsed, btHandle, btLogs, btNext, btCalls,
                   btSnap, btReply>>

\* Err(RecvTimeoutError::Timeout): recv_timeout is only used while the batch
\* is non-empty and expires once max_batch_time has elapsed since last_flush
BtTimeout ==
    /\ btWorker = "running"
    /\ btChan = <<>>
    /\ btBatch # <<>>
    /\ btElapsed >= BtMaxBatchTime
    /\ BtDrain
    /\ BtDiscard(btBatch)
    /\ btElapsed' = 0
    /\ UNCHANGED <<btConf, btGap, btChan, btWorker, btHandle, btLogs, btNext,
                   btCalls, btSnap, btReply>>

\* Err(RecvTimeoutError::Disconnected): every sender has been dropped
BtDisconnected ==
    /\ btWorker = "running"
    /\ btChan = <<>>
    /\ \A h \in BtHandles : btHandle[h] \in {"none", "gone"}
    /\ btHandle[BtOriginal] = "gone"
    /\ BtDrain
    /\ BtDiscard(btBatch)
    /\ btWorker' = "exited"
    /\ UNCHANGED <<btConf, btGap, btChan, btElapsed, btHandle, btLogs, btNext,
                   btCalls, btSnap, btReply>>

\* the passage of time as seen by last_flush.elapsed()
BtTick ==
    /\ btWorker = "running"
    /\ btElapsed < BtMaxBatchTime
    /\ btElapsed' = btElapsed + 1
    /\ UNCHANGED <<btConf, btGap, btAge, btSwallowed, btChan, btBatch, btWorker,
                   btDelivered, btHandle, btLogs, btNext, btCalls, btSnap, btReply>>

\* the same passage of time, with the two clocks the timing claims are about
\* kept as well: the age of the oldest buffered record, and whether time
\* passed between the first log() call and the second
BtTickTimed ==
    /\ btWorker = "running"
    /\ btElapsed < BtMaxBatchTime \/ (btBatch # <<>> /\ btAge < BtMaxBatchTime)
    /\ btElapsed' = (IF btElapsed < BtMaxBatchTime THEN btElapsed + 1 ELSE btElapsed)
    /\ btAge' = (IF btBatch # <<>> /\ btAge < BtMaxBatchTime THEN btAge + 1 ELSE btAge)
    /\ btGap' = (btGap \/ btNext = 1)
    /\ UNCHANGED <<btConf, btSwallowed, btChan, btBatch, btWorker, btDelivered,
                   btHandle, btLogs, btNext, btCalls, btSnap, btReply>>

\* --- the callers ----------------------------------------------------------

\* sender.send(msg): fails, and the message is dropped, once the receiver is gone
BtSend(msg) == IF btWorker = "running" THEN Append(btChan, msg) ELSE btChan

\* Transport::log: the send error is ignored
BtLog(h) ==
    /\ btHandle[h] = "idle"
    /\ btNext < BtMaxLogs
    /\ btNext' = btNext + 1
    /\ btChan' = BtSend([type |-> "Log", rec |-> btNext + 1, from |-> h])
    /\ btLogs' = [btLogs EXCEPT ![h] = Append(@, btNext + 1)]
    /\ UNCHANGED <<btConf, btGap, btSwallowed, btAge, btBatch, btElapsed, btWorker, btDelivered,
                   btHandle, btCalls, btSnap, btReply>>

\* Transport::flush and Transport::query up to the blocking recv: the request
\* is sent with a fresh response channel (a failed send makes the call return
\* Err("Failed to send ... message to batch thread"), see BtCallReturn)
BtCall(h, op) ==
    /\ btHandle[h] = "idle"
    /\ btCalls < BtMaxCalls
    /\ btCalls' = btCalls + 1
    /\ btSnap' = [btSnap EXCEPT ![h] = Range(btLogs[h])]
    /\ btChan' = BtSend([type |-> IF op = "flush" THEN "Flush" ELSE "Query",
                         rec |-> 0, from |-> h])
    /\ btHandle' = [btHandle EXCEPT ![h] = IF op = "flush" THEN "waitFlush" ELSE "waitQuery"]
    /\ UNCHANGED <<btConf, btGap, btSwallowed, btAge, btBatch, btElapsed, btWorker, btDelivered,
                   btLogs, btNext, btReply>>

BtFlushCall(h) == BtCall(h, "flush")

BtQueryCall(h) == BtCall(h, "query")

\* the call can return: the worker has replied, or the worker is gone (the
\* send failed, or response_receiver.recv() fails because the response sender
\* was dropped unanswered)
BtReplied(h) == btReply[h].res # "none"

BtNeverFails(h) == FALSE

BtFailed(h) == btReply[h].res = "none" /\ btWorker = "exited"

BtCallReturn(h) ==
    /\ btHandle[h] \in {"waitFlush", "waitQuery"}
    /\ BtReplied(h) \/ BtFailed(h)
    /\ btHandle' = [btHandle EXCEPT ![h] = "idle"]
    /\ btReply' = [btReply EXCEPT ![h] = BtNoReply]
    /\ btSnap' = [btSnap EXCEPT ![h] = {}]
    /\ UNCHANGED <<btConf, btGap, btSwallowed, btAge, btChan, btBatch, btElapsed, btWorker, btDelivered,
                   btLogs, btNext, btCalls>>

\* Clone::clone: the clone shares the sender and holds no thread handle (clones
\* are numbered in the order they are made)
BtClone(h, c) ==
    /\ btHandle[h] = "idle"
    /\ c # BtOriginal
    /\ btHandle[c] = "none"
    /\ \A b \in BtHandles : b < c => btHandle[b] # "none"
    /\ btHandle' = [btHandle EXCEPT ![c] = "idle"]
    /\ UNCHANGED <<btConf, btGap, btSwallowed, btAge, btChan, btBatch, btElapsed, btWorker, btDelivered,
                   btLogs, btNext, btCalls, btSnap, btReply>>

\* Drop::drop up to handle.join(): only a handle that holds the thread handle
\* (the original) sends Shutdown and joins, and only if flush_on_drop
BtDropNeverJoins(h) == FALSE

BtDropJoinsAny(h) == btFlushOnDrop

BtDropJoins(h) == h = BtOriginal /\ btFlushOnDrop

BtDrop(h) ==
    /\ btHandle[h] = "idle"
    /\ IF BtDropJoins(h)
       THEN /\ btChan' = BtSend([type |-> "Shutdown", rec |-> 0, from |-> h])
            /\ btHandle' = [btHandle EXCEPT ![h] = "joining"]
       ELSE /\ btHandle' = [btHandle EXCEPT ![h] = "gone"]
            /\ btChan' = btChan
    /\ btSnap' = [btSnap EXCEPT ![h] = IF h = BtOriginal THEN BtAllLogged ELSE {}]
    /\ UNCHANGED <<btConf, btGap, btSwallowed, btAge, btBatch, btElapsed, btWorker, btDelivered,
                   btLogs, btNext, btCalls, btReply>>

\* BatchedTransport::shutdown(self): sends Shutdown and joins whatever
\* flush_on_drop says; the Drop that follows finds no thread handle
BtShutdown ==
    /\ btHandle[BtOriginal] = "idle"
    /\ btSnap' = [btSnap EXCEPT ![BtOriginal] = BtAllLogged]
    /\ btChan' = BtSend([type |-> "Shutdown", rec |-> 0, from |-> BtOriginal])
    /\ btHandle' = [btHandle EXCEPT ![BtOriginal] = "joining"]
    /\ UNCHANGED <<btConf, btGap, btSwallowed, btAge, btBatch, btElapsed, btWorker, btDelivered,
                   btLogs, btNext, btCalls, btReply>>

\* handle.join() returns once the worker thread has ended
BtJoined ==
    /\ btHandle[BtOriginal] = "joining"
    /\ btWorker = "exited"
    /\ btHandle' = [btHandle EXCEPT ![BtOriginal] = "joined"]
    /\ UNCHANGED <<btConf, btGap, btSwallowed, btAge, btChan, btBatch, btElapsed, btWorker, btDelivered,
                   btLogs, btNext, btCalls, btSnap, btReply>>

\* --- claims about BatchedTransport ----------------------------------------

\* flush() on handle h is about to return (with the worker's reply or with a
\* channel error); query() on h has been forwarded to the inner transport
BtFlushReturns(h) == btHandle[h] = "waitFlush" /\ (BtReplied(h) \/ BtFailed(h))

BtFlushReplied(h) == btHandle[h] = "waitFlush" /\ BtReplied(h)

BtQueryForwarded(h) == btHandle[h] = "waitQuery" /\ BtReplied(h)

\* C1 (as claimed): whenever flush() returns, every record whose log() had
\* returned on that handle before the flush() call has been handed to the
\* inner transport's log_batch; whenever a query is forwarded to the inner
\* transport, every such record had been handed over before.
C1_BarrierOnEveryReturn ==
    \A h \in BtHandles :
        /\ BtFlushReturns(h) => btSnap[h] \subseteq BtDeliveredSet
        /\ BtQueryForwarded(h) => btSnap[h] \subseteq btReply[h].seen

\* C1 (amended): the barrier holds for every flush() that returns the
\* worker's reply (Ok, or the inner transport's flush error) and for every
\* forwarded query; a flush() that fails on the channel because the worker
\* has shut down is no barrier.
C1_BarrierOnReply ==
    \A h \in BtHandles :
        /\ BtFlushReplied(h) => btSnap[h] \subseteq BtDeliveredSet
        /\ BtQueryForwarded(h) => btSnap[h] \subseteq btReply[h].seen

C1_Witness ==
    \E h \in BtHandles : BtFlushReplied(h) /\ btSnap[h] # {}

\* C2: with flush_on_drop = true, once the drop of the original handle has
\* returned, every record passed to log() on any handle before the drop began
\* has been handed to the inner transport.
C2_NoLossOnDrop ==
    (btFlushOnDrop /\ btHandle[BtOriginal] \in {"joined", "gone"})
        => btSnap[BtOriginal] \subseteq BtDeliveredSet

C2_Witness ==
    /\ btFlushOnDrop
    /\ btHandle[BtOriginal] = "joined"
    /\ Range(btLogs[BtOriginal]) # {}
    /\ \E c \in BtHandles \ {BtOriginal} :
           Range(btLogs[c]) \cap btSnap[BtOriginal] # {}

\* C9: if a handle logged a and then b, the inner transport is handed b only
\* after a (in an earlier batch, or earlier in the same batch).
C9_PerProducerOrder ==
    LET flat == Flatten(btDelivered) IN
    \A h \in BtHandles : \A i, j \in DOMAIN btLogs[h] :
        (i < j /\ IndexOf(flat, btLogs[h][j]) # 0)
            => /\ IndexOf(flat, btLogs[h][i]) # 0
               /\ IndexOf(flat, btLogs[h][i]) < IndexOf(flat, btLogs[h][j])

C9_Witness ==
    \E h \in BtHandles :
        /\ Len(btLogs[h]) >= 2
        /\ Range(btLogs[h]) \subseteq BtDeliveredSet

\* two log() calls were made on the original handle with no time passing
\* between them, nothing else was asked of the wrapper, and the idle period
\* that followed has emptied the channel and the buffer
BtTwoLogsThenIdle ==
    /\ btLogs[BtOriginal] = <<1, 2>>
    /\ ~btGap
    /\ btCalls = 0
    /\ \A h \in BtHandles : btHandle[h] = (IF h = BtOriginal THEN "idle" ELSE "none")
    /\ btWorker = "running"
    /\ btChan = <<>>
    /\ btBatch = <<>>

\* C14: with max_batch_size greater than 2, two back-to-back log() calls into
\* an empty buffer followed by an idle period longer than max_batch_time make
\* exactly one log_batch delivery, holding both records, however long after
\* the construction of the wrapper the first call is made.
C14_TimeTriggerOneBatch ==
    (btSize > 2 /\ BtTwoLogsThenIdle) => btDelivered = << <<1, 2>> >>

\* C15: once a record has been in the buffer for max_batch_time (which is
\* then also over since the previous drain), the worker does nothing to the
\* buffer but drain it: no record is kept beyond max_batch_time, whatever the
\* arrival pattern.
C15_MaxWaitBounded ==
    [][(btBatch # <<>> /\ btAge >= BtMaxBatchTime /\ btBatch' # btBatch)
           => btBatch' = <<>>]_btVars

\* flush() on handle h returns Err: the worker's reply is the inner error, or
\* the channel failed
BtFlushErr(h) == BtFailed(h) \/ btReply[h].res = "innerErr"

\* the worker leaves its loop only on Shutdown or when every sender is gone:
\* Shutdown is sent by shutdown() and by the original's drop, which both go on
\* to join
BtStopsOnlyOnRequest ==
    btWorker = "exited" => btHandle[BtOriginal] \in {"joining", "joined", "gone"}

\* C16 as stated: flush() returns Err exactly when the inner flush of that
\* flush's own drain failed; a drain failure of the size, timeout, query or
\* shutdown arm reaches no caller and does not stop the worker
C16_ErrExactlyOnOwnDrain ==
    /\ \A h \in BtHandles :
        /\ BtFlushReturns(h) => (BtFlushErr(h) <=> btReply[h].drainErr)
        /\ BtQueryForwarded(h) => (btReply[h].res = "innerErr" <=> btReply[h].queryErr)
    /\ BtStopsOnlyOnRequest

\* C16 amended: a flush() that the worker answers returns Err exactly when the
\* inner flush of its own drain failed (a flush() the worker never answers
\* returns a channel Err); a query's reply is transport.query's result
\* whatever its drain did; a discarded drain failure does not stop the worker
C16_ReplyErrExactlyOnOwnDrain ==
    /\ \A h \in BtHandles :
        /\ BtFlushReplied(h) => (btReply[h].res = "innerErr" <=> btReply[h].drainErr)
        /\ BtQueryForwarded(h) => (btReply[h].res = "innerErr" <=> btReply[h].queryErr)
    /\ BtStopsOnlyOnRequest

\* a discarded drain has failed, the worker is still running and has since
\* answered a flush() with Ok after draining a batch
C16_Witness ==
    /\ btSwallowed
    /\ btWorker = "running"
    /\ Len(btDelivered) >= 2
    /\ \E h \in BtHandles : BtFlushReplied(h) /\ btReply[h].res = "ok"

BtClones == BtHandles \ {BtOriginal}

\* the original handle is still in use
BtOriginalAlive == btHandle[BtOriginal] \in {"idle", "waitFlush", "waitQuery"}

\* C17: a clone never sends Shutdown and never joins the worker; with a clone
\* dropped and the original still in use the worker keeps running, and a
\* flush() of the original is answered with the original's records delivered
C17_CloneDropLeavesWorker ==
    /\ \A c \in BtClones : btHandle[c] \notin {"joining", "joined"}
    /\ \A i \in 1..Len(btChan) : btChan[i].type = "Shutdown" => btChan[i].from = BtOriginal
    /\ ((\E c \in BtClones : btHandle[c] = "gone") /\ BtOriginalAlive) =>
           /\ btWorker = "running"
           /\ BtFlushReplied(BtOriginal) => btSnap[BtOriginal] \subseteq BtDeliveredSet

\* flush_on_drop is set, a clone has been dropped, and the worker has since
\* answered a flush() of the original that had logged records
C17_Witness ==
    /\ btFlushOnDrop
    /\ \E c \in BtClones : btHandle[c] = "gone"
    /\ btWorker = "running"
    /\ BtFlushReplied(BtOriginal)
    /\ btSnap[BtOriginal] # {}

\* C30: with max_batch_size >= 1 the worker's buffer holds fewer than
\* max_batch_size records after every message it has processed, and a drain
\* made by the Log arm hands inner.log_batch exactly max_batch_size records.
C30_SizeDrainExact ==
    [][btSize >= 1 =>
         /\ Len(btBatch') < btSize
         /\ (/\ btWorker = "running"
             /\ btChan # <<>>
             /\ Head(btChan).type = "Log"
             /\ btChan' = Tail(btChan)
             /\ btDelivered' # btDelivered) =>
                /\ Len(btDelivered') = Len(btDelivered) + 1
                /\ Len(btDelivered'[Len(btDelivered')]) = btSize]_btVars

\* a batch of max_batch_size records has been handed over and the buffer is
\* empty again
C30_Witness ==
    /\ btSize >= 2
    /\ btBatch = <<>>
    /\ btWorker = "running"
    /\ \E i \in DOMAIN btDelivered : Len(btDelivered[i]) = btSize

\* C34: every flush() call reaches the inner transport, also with an empty
\* buffer: the worker's Flush arm runs inner.log_batch and inner.flush (which
\* flush_batch calls together or not at all), and flush() returns with the
\* worker's reply.
C34_FlushReachesInner ==
    [][/\ (/\ btWorker = "running"
           /\ btChan # <<>>
           /\ Head(btChan).type = "Flush"
           /\ btChan' = Tail(btChan)) => btDelivered' # btDelivered
       /\ \A h \in BtHandles :
            (btHandle[h] = "waitFlush" /\ btHandle'[h] = "idle") => BtReplied(h)]_btVars

TtMaxLogs == 3        \* log() calls made in one run
TtMaxCalls == 2       \* flush()/query() calls made in one run
TtMaxCallers == 2     \* threads that share the transport by reference

TtCallers == 1..TtMaxCallers

VARIABLES
    ttChan,     \* the mpsc channel: messages sent and not yet received
    ttInner,    \* the calls the worker has made on the inner transport, in order
    ttWorker,   \* "running" | "exited"
    ttOwner,    \* the transport value: "alive" | "joining" | "joined"
    ttCaller,   \* per calling thread: "idle" | "waitFlush" | "waitQuery"
    ttSent,     \* the records passed to log(), in the order of the sends
    ttCalls,    \* number of flush()/query() calls made so far
    ttSnap,     \* per caller: the records logged before its pending call
    ttReply     \* per caller: the reply on its response channel ("none" | "ok" | "innerErr")

ttVars == <<ttChan, ttInner, ttWorker, ttOwner, ttCaller, ttSent, ttCalls,
            ttSnap, ttReply>>

TtInit ==
    /\ ttChan = <<>>
    /\ ttInner = <<>>
    /\ ttWorker = "running"
    /\ ttOwner = "alive"
    /\ ttCaller = [c \in TtCallers |-> "idle"]
    /\ ttSent = <<>>
    /\ ttCalls = 0
    /\ ttSnap = [c \in TtCallers |-> {}]
    /\ ttReply = [c \in TtCallers |-> "none"]

TtIdle ==
    /\ ttChan = <<>>
    /\ ttInner = <<>>
    /\ ttWorker = "exited"
    /\ ttOwner = "joined"
    /\ ttCaller = [c \in TtCallers |-> "idle"]
    /\ ttSent = <<>>
    /\ ttCalls = 0
    /\ ttSnap = [c \in TtCallers |-> {}]
    /\ ttReply = [c \in TtCallers |-> "none"]

\* the records the inner transport's log has been called with, in order
TtInnerLogs == SelectSeq(ttInner, LAMBDA e : e.type = "log")

TtLogEvents(recs) == [i \in DOMAIN recs |-> [type |-> "log", rec |-> recs[i], from |-> 0, call |-> 0]]

\* --- the worker thread: run_transport_thread ------------------------------

\* TransportMessage::Log(info) => transport.log(info)
TtDispatchTwice(inner, info) ==
    inner \o <<[type |-> "log", rec |-> info, from |-> 0, call |-> 0],
               [type |-> "log", rec |-> info, from |-> 0, call |-> 0]>>

TtDispatch(inner, info) ==
    Append(inner, [type |-> "log", rec |-> info, from |-> 0, call |-> 0])

TtRecvLog ==
    /\ ttWorker = "running"
    /\ ttChan # <<>>
    /\ Head(ttChan).type = "Log"
    /\ ttChan' = Tail(ttChan)
    /\ ttInner' = TtDispatch(ttInner, Head(ttChan).rec)
    /\ UNCHANGED <<ttWorker, ttOwner, ttCaller, ttSent, ttCalls, ttSnap, ttReply>>

\* TransportMessage::Flush(response_sender): transport.flush(), reply its result
TtRecvFlush ==
    /\ ttWorker = "running"
    /\ ttChan # <<>>
    /\ Head(ttChan).type = "Flush"
    /\ ttChan' = Tail(ttChan)
    /\ ttInner' = Append(ttInner, [type |-> "flush", rec |-> 0,
                                   from |-> Head(ttChan).from, call |-> Head(ttChan).call])
    /\ \E innerOk \in BOOLEAN :
         ttReply' = [ttReply EXCEPT ![Head(ttChan).from] = IF innerOk THEN "ok" ELSE "innerErr"]
    /\ UNCHANGED <<ttWorker, ttOwner, ttCaller, ttSent, ttCalls, ttSnap>>

\* TransportMessage::Query(query, response_sender): transport.query(&query)
TtRecvQuery ==
    /\ ttWorker = "running"
    /\ ttChan # <<>>
    /\ Head(ttChan).type = "Query"
    /\ ttChan' = Tail(ttChan)
    /\ ttInner' = Append(ttInner, [type |-> "query", rec |-> 0,
                                   from |-> Head(ttChan).from, call |-> Head(ttChan).call])
    /\ \E innerOk \in BOOLEAN :
         ttReply' = [ttReply EXCEPT ![Head(ttChan).from] = IF innerOk THEN "ok" ELSE "innerErr"]
    /\ UNCHANGED <<ttWorker, ttOwner, ttCaller, ttSent, ttCalls, ttSnap>>

\* TransportMessage::Shutdown: transport.flush(), then leave the loop
TtShutdownSkipsFlush(inner) == inner

TtShutdownFlush(inner) ==
    Append(inner, [type |-> "flush", rec |-> 0, from |-> 0, call |-> 0])

TtRecvShutdown ==
    /\ ttWorker = "running"
    /\ ttChan # <<>>
    /\ Head(ttChan).type = "Shutdown"
    /\ ttInner' = TtShutdownFlush(ttInner)
    /\ ttWorker' = "exited"
    /\ ttChan' = <<>>
    /\ UNCHANGED <<ttOwner, ttCaller, ttSent, ttCalls, ttSnap, ttReply>>

\* --- the callers ----------------------------------------------------------

TtSend(msg) == IF ttWorker = "running" THEN Append(ttChan, msg) ELSE ttChan

\* Transport::log
TtLog(c) ==
    /\ ttOwner = "alive"
    /\ ttCaller[c] = "idle"
    /\ Len(ttSent) < TtMaxLogs
    /\ ttSent' = Append(ttSent, Len(ttSent) + 1)
    /\ ttChan' = TtSend([type |-> "Log", rec |-> Len(ttSent) + 1, from |-> c, call |-> 0])
    /\ UNCHANGED <<ttInner, ttWorker, ttOwner, ttCaller, ttCalls, ttSnap, ttReply>>

\* Transport::flush and Transport::query up to the blocking recv
TtCall(c, op) ==
    /\ ttOwner = "alive"
    /\ ttCaller[c] = "idle"
    /\ ttCalls < TtMaxCalls
    /\ ttCalls' = ttCalls + 1
    /\ ttSnap' = [ttSnap EXCEPT ![c] = Range(ttSent)]
    /\ ttChan' = TtSend([type |-> IF op = "flush" THEN "Flush" ELSE "Query",
                         rec |-> 0, from |-> c, call |-> ttCalls + 1])
    /\ ttCaller' = [ttCaller EXCEPT ![c] = IF op = "flush" THEN "waitFlush" ELSE "waitQuery"]
    /\ UNCHANGED <<ttInner, ttWorker, ttOwner, ttSent, ttReply>>

TtFlushCall(c) == TtCall(c, "flush")

TtQueryCall(c) == TtCall(c, "query")

\* response_receiver.recv() returns the reply, or fails when the worker is gone
TtCallReturn(c) ==
    /\ ttCaller[c] \in {"waitFlush", "waitQuery"}
    /\ ttReply[c] # "none" \/ ttWorker = "exited"
    /\ ttCaller' = [ttCaller EXCEPT ![c] = "idle"]
    /\ ttReply' = [ttReply EXCEPT ![c] = "none"]
    /\ ttSnap' = [ttSnap EXCEPT ![c] = {}]
    /\ UNCHANGED <<ttChan, ttInner, ttWorker, ttOwner, ttSent, ttCalls>>

\* ThreadedTransport::shutdown(self) up to handle.join(): it takes the value,
\* so no caller is inside a call on it
TtShutdown ==
    /\ ttOwner = "alive"
    /\ \A c \in TtCallers : ttCaller[c] = "idle"
    /\ ttChan' = TtSend([type |-> "Shutdown", rec |-> 0, from |-> 0, call |-> 0])
    /\ ttOwner' = "joining"
    /\ UNCHANGED <<ttInner, ttWorker, ttCaller, ttSent, ttCalls, ttSnap, ttReply>>

\* Drop::drop up to handle.join(): the thread handle is always there unless
\* shutdown() took it
TtDrop ==
    /\ ttOwner = "alive"
    /\ \A c \in TtCallers : ttCaller[c] = "idle"
    /\ ttChan' = TtSend([type |-> "Shutdown", rec |-> 0, from |-> 0, call |-> 0])
    /\ ttOwner' = "joining"
    /\ UNCHANGED <<ttInner, ttWorker, ttCaller, ttSent, ttCalls, ttSnap, ttReply>>

\* handle.join() returns once the worker thread has ended
TtJoined ==
    /\ ttOwner = "joining"
    /\ ttWorker = "exited"
    /\ ttOwner' = "joined"
    /\ UNCHANGED <<ttChan, ttInner, ttWorker, ttCaller, ttSent, ttCalls, ttSnap, ttReply>>

\* --- claims about ThreadedTransport ---------------------------------------

\* flush() of caller c is about to return
TtFlushReturns(c) ==
    ttCaller[c] = "waitFlush" /\ (ttReply[c] # "none" \/ ttWorker = "exited")

\* C10: the inner transport's log is called once per record and in the order
\* of the sends (its calls are a prefix of the sent records), and when
\* flush() returns, the worker has called inner.flush for it after passing
\* every record logged before the flush() call to inner.log.
C10_DispatchOnceInOrder ==
    /\ Len(TtInnerLogs) <= Len(ttSent)
    /\ TtInnerLogs = TtLogEvents(SubSeq(ttSent, 1, Len(TtInnerLogs)))
    /\ \A c \in TtCallers :
          TtFlushReturns(c) =>
              \E i \in DOMAIN ttInner :
                  /\ ttInner[i].type = "flush"
                  /\ ttInner[i].from = c
                  /\ \A r \in ttSnap[c] :
                        \E j \in 1..(i-1) : ttInner[j].type = "log" /\ ttInner[j].rec = r

C10_Witness ==
    \E c \in TtCallers :
        /\ TtFlushReturns(c)
        /\ Cardinality(ttSnap[c]) >= 2

\* C11: once shutdown(), or the drop of the transport, has returned, the
\* worker has exited, and before that it passed every record logged on the
\* transport to inner.log and, after the last of them, called inner.flush.
C11_ShutdownDrains ==
    ttOwner = "joined" =>
        /\ ttWorker = "exited"
        /\ TtInnerLogs = TtLogEvents(ttSent)
        /\ ttInner # <<>>
        /\ ttInner[Len(ttInner)] = [type |-> "flush", rec |-> 0, from |-> 0, call |-> 0]

C11_Witness ==
    /\ ttOwner = "joined"
    /\ Len(ttSent) >= 2
    /\ ttCalls >= 1

\* =========================================================================
\* FileTransport (winston_file/src/lib.rs)
\* =========================================================================

\* bounds of the FileTransport model
FtMaxLogs == 3        \* log() calls made on the source in one run
FtMaxProxy == 2       \* proxy() calls made on the source in one run

\* A line of the file is [id, json]: the id of the log() call that wrote it
\* and whether its message is a JSON object with string "level" and "message"
FtLine(id, json) == [id |-> id, json |-> json]

\* backup paths <file>.bak0, <file>.bak1, ...
FtBackups == 0..FtMaxProxy

VARIABLES
    ftInodes,    \* the files on disk: inode number -> the lines written to it
    ftLogIno,    \* the inode at options.filename (0: no such file)
    ftBak,       \* the inode at each backup path (0: no such file)
    ftHandle,    \* the inode the BufWriter in `file` writes to
    ftBuf,       \* the lines buffered in the BufWriter and not yet written
    ftNext,      \* number of log() calls made so far
    ftGood,      \* the log() calls so far whose message was a JSON record
    ftPc,        \* where the proxy() call is: "idle" | "flush" | "rename" | "create" | "swap" | "drain"
    ftBackup,    \* proxy(): the counter of backup_path
    ftReadPos,   \* proxy(): lines of the backup read so far
    ftCount,     \* proxy(): log_count
    ftRes,       \* what the last proxy() returned: "none" | "ok" | "err"
    ftProxies,   \* number of proxy() calls made so far
    ftTarget,    \* the records the target's ingest accepted, in order
    ftRefused,   \* the target's ingest has returned Err at least once
    ftSnapSrc,   \* the records the source held when the last proxy() began
    ftSnapTgt,   \* what the target had ingested when the last proxy() began
    ftSnapNext   \* ftNext when the last proxy() began

ftVars == <<ftInodes, ftLogIno, ftBak, ftHandle, ftBuf, ftNext, ftGood, ftPc, ftBackup,
            ftReadPos, ftCount, ftRes, ftProxies, ftTarget, ftRefused,
            ftSnapSrc, ftSnapTgt, ftSnapNext>>

\* parse_log_entry: Some(record) for a JSON line with level and message
parse_log_entry(line) == line.json

\* the records (ids) of the parseable lines of a sequence of lines, in order
FtRecords(lines) ==
    LET good == SelectSeq(lines, parse_log_entry) IN [i \in DOMAIN good |-> good[i].id]

FtFileAt(ino) == IF ino = 0 THEN <<>> ELSE ftInodes[ino]

\* what the source holds: its file, and what its writer still buffers for it
FtSourceLines ==
    FtFileAt(ftLogIno) \o (IF ftHandle = ftLogIno THEN ftBuf ELSE <<>>)

\* Transport::query with the default LogQuery: the parseable lines of the file
\* at options.filename (the writer's buffer is not read)
FtQueryAll == FtRecords(FtFileAt(ftLogIno))

\* FileTransport::new: the file is created (or opened for append)
FtInit ==
    /\ ftInodes = <<(<<>>)>>
    /\ ftLogIno = 1
    /\ ftBak = [k \in FtBackups |-> 0]
    /\ ftHandle = 1
    /\ ftBuf = <<>>
    /\ ftNext = 0
    /\ ftGood = {}
    /\ ftPc = "idle"
    /\ ftBackup = 0
    /\ ftReadPos = 0
    /\ ftCount = 0
    /\ ftRes = "none"
    /\ ftProxies = 0
    /\ ftTarget = <<>>
    /\ ftRefused = FALSE
    /\ ftSnapSrc = <<>>
    /\ ftSnapTgt = <<>>
    /\ ftSnapNext = 0

FtIdle ==
    /\ ftInodes = <<>>
    /\ ftLogIno = 0
    /\ ftBak = [k \in FtBackups |-> 0]
    /\ ftHandle = 0
    /\ ftBuf = <<>>
    /\ ftNext = 0
    /\ ftGood = {}
    /\ ftPc = "off"
    /\ ftBackup = 0
    /\ ftReadPos = 0
    /\ ftCount = 0
    /\ ftRes = "none"
    /\ ftProxies = 0
    /\ ftTarget = <<>>
    /\ ftRefused = FALSE
    /\ ftSnapSrc = <<>>
    /\ ftSnapTgt = <<>>
    /\ ftSnapNext = 0

\* BufWriter::flush, and what dropping a BufWriter does: the buffered lines
\* are written to the file the writer has open
FtDropWriterLosesBuffer(inodes, handle, buf) == inodes

FtWriteOut(inodes, handle, buf) == [inodes EXCEPT ![handle] = @ \o buf]

\* Transport::log: writeln!(file, "{}", info.message) under the file lock
FtLog(json) ==
    /\ ftPc # "off"
    /\ ftNext < FtMaxLogs
    /\ ftNext' = ftNext + 1
    /\ ftBuf' = Append(ftBuf, FtLine(ftNext + 1, json))
    /\ ftGood' = IF json THEN ftGood \cup {ftNext + 1} ELSE ftGood
    /\ UNCHANGED <<ftInodes, ftLogIno, ftBak, ftHandle, ftPc, ftBackup, ftReadPos,
                   ftCount, ftRes, ftProxies, ftTarget, ftRefused, ftSnapSrc,
                   ftSnapTgt, ftSnapNext>>

\* Transport::flush (a full BufWriter writes its buffer out the same way)
FtFlush ==
    /\ ftPc # "off"
    /\ ftBuf # <<>>
    /\ ftInodes' = FtWriteOut(ftInodes, ftHandle, ftBuf)
    /\ ftBuf' = <<>>
    /\ UNCHANGED <<ftLogIno, ftBak, ftHandle, ftNext, ftGood, ftPc, ftBackup, ftReadPos,
                   ftCount, ftRes, ftProxies, ftTarget, ftRefused, ftSnapSrc,
                   ftSnapTgt, ftSnapNext>>

\* --- Proxy::proxy ----------------------------------------------------------

\* the backup path: the lowest counter whose file does not exist
FtBackupCounter == CHOOSE k \in FtBackups : ftBak[k] = 0 /\ \A j \in 0..(k-1) : ftBak[j] # 0

\* take the proxy lock and pick the backup path
FtProxyBegin ==
    /\ ftPc = "idle"
    /\ ftProxies < FtMaxProxy
    /\ ftProxies' = ftProxies + 1
    /\ ftBackup' = FtBackupCounter
    /\ ftPc' = "flush"
    /\ ftReadPos' = 0
    /\ ftCount' = 0
    /\ ftRes' = "none"
    /\ ftSnapSrc' = FtRecords(FtSourceLines)
    /\ ftSnapTgt' = ftTarget
    /\ ftSnapNext' = ftNext
    /\ UNCHANGED <<ftInodes, ftLogIno, ftBak, ftHandle, ftBuf, ftNext, ftGood, ftTarget, ftRefused>>

\* lock the file and flush pending writes
FtProxyFlush ==
    /\ ftPc = "flush"
    /\ ftInodes' = FtWriteOut(ftInodes, ftHandle, ftBuf)
    /\ ftBuf' = <<>>
    /\ ftPc' = "rename"
    /\ UNCHANGED <<ftLogIno, ftBak, ftHandle, ftNext, ftGood, ftBackup, ftReadPos, ftCount,
                   ftRes, ftProxies, ftTarget, ftRefused, ftSnapSrc, ftSnapTgt, ftSnapNext>>

\* std::fs::rename(log_file_path, &backup_path)
FtProxyRename ==
    /\ ftPc = "rename"
    /\ ftBak' = [ftBak EXCEPT ![ftBackup] = ftLogIno]
    /\ ftLogIno' = 0
    /\ ftPc' = "create"
    /\ UNCHANGED <<ftInodes, ftHandle, ftBuf, ftNext, ftGood, ftBackup, ftReadPos, ftCount,
                   ftRes, ftProxies, ftTarget, ftRefused, ftSnapSrc, ftSnapTgt, ftSnapNext>>

\* File::create(log_file_path)
FtProxyCreate ==
    /\ ftPc = "create"
    /\ ftInodes' = Append(ftInodes, <<>>)
    /\ ftLogIno' = Len(ftInodes) + 1
    /\ ftPc' = "swap"
    /\ UNCHANGED <<ftBak, ftHandle, ftBuf, ftNext, ftGood, ftBackup, ftReadPos, ftCount,
                   ftRes, ftProxies, ftTarget, ftRefused, ftSnapSrc, ftSnapTgt, ftSnapNext>>

\* *file_guard = BufWriter::new(new_log_file): the old writer is dropped, the
\* backup is then opened for reading
FtProxySwap ==
    /\ ftPc = "swap"
    /\ ftInodes' = FtWriteOut(ftInodes, ftHandle, ftBuf)
    /\ ftBuf' = <<>>
    /\ ftHandle' = ftLogIno
    /\ ftPc' = "drain"
    /\ UNCHANGED <<ftLogIno, ftBak, ftNext, ftGood, ftBackup, ftReadPos, ftCount, ftRes,
                   ftProxies, ftTarget, ftRefused, ftSnapSrc, ftSnapTgt, ftSnapNext>>

\* one round of the read loop: a line that parses goes to target.ingest, whose
\* Err ends proxy() at once (the backup stays); other lines are skipped
FtProxyCount(count, line) == IF parse_log_entry(line) THEN count + 1 ELSE count

FtProxyLine ==
    /\ ftPc = "drain"
    /\ ftReadPos < Len(FtFileAt(ftBak[ftBackup]))
    /\ LET line == FtFileAt(ftBak[ftBackup])[ftReadPos + 1] IN
       \/ /\ ftReadPos' = ftReadPos + 1
          /\ ftCount' = FtProxyCount(ftCount, line)
          /\ ftTarget' = IF parse_log_entry(line) THEN Append(ftTarget, line.id) ELSE ftTarget
          /\ UNCHANGED <<ftPc, ftRes, ftRefused>>
       \/ /\ parse_log_entry(line)
          /\ ftRefused' = TRUE
          /\ ftRes' = "err"
          /\ ftPc' = "idle"
          /\ UNCHANGED <<ftReadPos, ftCount, ftTarget>>
    /\ UNCHANGED <<ftInodes, ftLogIno, ftBak, ftHandle, ftBuf, ftNext, ftGood, ftBackup,
                   ftProxies, ftSnapSrc, ftSnapTgt, ftSnapNext>>

\* end of the backup: std::fs::remove_file(&backup_path), then Ok(log_count)
FtRemoveKeepsBackup(bak, k) == bak

FtRemoveBackup(bak, k) == [bak EXCEPT ![k] = 0]

FtProxyEnd ==
    /\ ftPc = "drain"
    /\ ftReadPos = Len(FtFileAt(ftBak[ftBackup]))
    /\ ftBak' = FtRemoveBackup(ftBak, ftBackup)
    /\ ftRes' = "ok"
    /\ ftPc' = "idle"
    /\ UNCHANGED <<ftInodes, ftLogIno, ftHandle, ftBuf, ftNext, ftGood, ftBackup, ftReadPos,
                   ftCount, ftProxies, ftTarget, ftRefused, ftSnapSrc, ftSnapTgt, ftSnapNext>>

\* --- claims about FileTransport.proxy --------------------------------------

\* the last proxy() call has returned Ok
FtProxyOk == ftPc = "idle" /\ ftRes = "ok"

\* the records (JSON lines) logged on the source since the last proxy() began
FtLoggedSince == { id \in ftGood : id > ftSnapNext }

\* C4: after proxy() has returned Ok, with log() running concurrently, the
\* records in the source plus the records ingested by the target are the
\* records both held when the call began plus those logged since, each held
\* exactly once (none lost, none duplicated).
C4_ProxyConservation ==
    FtProxyOk =>
        LET src == FtRecords(FtSourceLines) IN
        /\ Len(src) + Len(ftTarget)
              = Len(ftSnapSrc) + Len(ftSnapTgt) + Cardinality(FtLoggedSince)
        /\ NoDup(src \o ftTarget)
        /\ Range(src) \cup Range(ftTarget)
              = Range(ftSnapSrc) \cup Range(ftSnapTgt) \cup FtLoggedSince

C4_Witness ==
    /\ FtProxyOk
    /\ ftCount >= 1
    /\ FtLoggedSince \cap Range(ftTarget) # {}
    /\ FtLoggedSince \cap Range(FtRecords(FtSourceLines)) # {}

\* C5: after k records were written to the source and proxy() ran with no
\* concurrent writer (and a target that accepts every record), proxy returned
\* Ok(k), a query on the source returns nothing, the target received exactly
\* those k records in their original order, and no backup file is left.
C5_ProxyDrainsAll ==
    (ftPc = "idle" /\ ftProxies >= 1 /\ ~ftRefused /\ ftNext = ftSnapNext) =>
        /\ ftRes = "ok"
        /\ ftCount = Len(ftSnapSrc)
        /\ FtQueryAll = <<>>
        /\ ftTarget = ftSnapTgt \o ftSnapSrc
        /\ \A k \in FtBackups : ftBak[k] = 0

C5_Witness ==
    /\ ftPc = "idle" /\ ftProxies = 1 /\ ~ftRefused /\ ftNext = ftSnapNext
    /\ Len(ftSnapSrc) >= 2
    /\ ftCount >= 2

\* C12: when proxy() has returned Err, the source still holds every record
\* it held when the call began, and a query on the source returns them.
C12_ProxyAllOrNothing ==
    (ftPc = "idle" /\ ftRes = "err") =>
        /\ Range(ftSnapSrc) \subseteq Range(FtRecords(FtSourceLines))
        /\ Range(ftSnapSrc) \subseteq Range(FtQueryAll)

\* =========================================================================
\* DailyRotateFile (winston_daily_rotate_file/src/daily_rotate_file.rs)
\* =========================================================================

\* The sink is built with options.dirname unset, so every file it makes is in
\* the directory of options.filename, which holds no file of the sink at
\* construction.  Every entry has the same size.  The file system stamps each
\* write and each creation with a later modification time than the one
\* before, so the sort of cleanup_old_files has no ties.  A thread's log()
\* call is a sequence of steps, one per lock the code takes or file system
\* call it makes; the steps of different threads interleave freely.

\* bounds of the DailyRotateFile model
DrfMaxLogs == 3       \* log() calls made in one run
DrfMaxDate == 1       \* times the formatted date changes in one run

\* configuration values used by the model (DailyRotateFileOptions)
DrfSizeLimit == 2     \* max_size, when set
DrfBigEntry == 2      \* the size of a long entry; a short one has size 1
DrfMaxBatch == 2      \* records in a log_batch() call

\* A file name is [d, c, z]: the formatted date d, the counter c that
\* create_unique_file put before the extension ("base_c.date", none for 0),
\* and z = 0 for a log file, z = k + 1 for the archive compress_file made of
\* it with counter k ("base.date.gz", "base.date_k.gz").  All of them start
\* with "base." or "base_", which is what cleanup_old_files looks for.
DrfName(d, c, z) == [d |-> d, c |-> c, z |-> z]
DrfIsGz(n) == n.z > 0

VARIABLES
    drfZip,       \* options.zipped_archive
    drfMaxFiles,  \* options.max_files (0: None)
    drfMaxSize,   \* options.max_size (0: None)
    drfEntry,     \* the size of every entry ("message\n") of the run
    drfBatch,     \* the most records a call carries: 1 when only log() is called
    drfCount,     \* per thread: the records of its log() (1) or log_batch() call
    drfRelPath,   \* options.filename is relative, "dir/base" (options.dirname is None)
    drfDirname,   \* options.dirname is Some(dir), dir not the working directory,
                  \* and options.filename is a bare file name
    drfThreads,   \* the threads that call log() on the sink
    drfDate,      \* the current time, formatted with options.date_pattern
    drfClock,     \* the file system's modification clock
    drfInodes,    \* the files' contents: inode number -> the entries written
    drfDir,       \* the directory: file name -> [ino, mtime]
    drfHandle,    \* `file`: the inode the BufWriter has open
    drfBuf,       \* `file`: the entries buffered in the BufWriter
    drfPath,      \* `file_path`: [name, dotted]
    drfLastRot,   \* `last_rotation`, formatted with options.date_pattern
    drfPc,        \* per thread: where its log() call is
    drfMsg,       \* per thread: the message of its log() call
    drfNow,       \* per thread: rotate()'s `now`
    drfPrev,      \* per thread: rotate()'s `previous_file_path`
    drfNew,       \* per thread: rotate()'s (new_file, new_path)
    drfZsrc,      \* per thread: compress_file()'s file_path
    drfZret,      \* per thread: where compress_file() returns to
    drfRest,      \* per thread: cleanup_old_files()'s files still to go over
    drfSeen,      \* per thread: the inode `file` had open when should_rotate decided
    drfNext,      \* number of log() calls begun so far
    drfLogged,    \* the messages of the log() calls that have completed
    drfKilled     \* cleanup_old_files removed the file that `file` had open

drfCfg ==
    <<drfZip, drfMaxFiles, drfMaxSize, drfEntry, drfBatch, drfRelPath, drfDirname, drfThreads>>

\* new_entry_size = info.message.len() + 1
DrfEntrySize == drfEntry
drfFs == <<drfInodes, drfDir, drfClock>>
drfSink == <<drfHandle, drfBuf, drfPath, drfLastRot>>
drfLocal == <<drfMsg, drfNow, drfPrev, drfNew, drfZsrc, drfZret, drfRest, drfSeen, drfCount>>
drfGhost == <<drfNext, drfLogged, drfKilled>>
drfVars == <<drfCfg, drfDate, drfFs, drfSink, drfPc, drfLocal, drfGhost>>

DrfAllThreads == {1, 2}
DrfNoName == DrfName(0, 0, 0)
DrfNoPath == [name |-> DrfNoName, dotted |-> FALSE]

\* DailyRotateFile::new: create_file at the current date in an empty directory
DrfInitWith(threads, keeps, limits, relative, sizes, batches, dirnames) ==
    /\ drfZip \in BOOLEAN
    /\ drfMaxFiles \in keeps
    /\ drfMaxSize \in limits
    /\ drfEntry \in sizes
    /\ drfBatch \in batches
    /\ drfRelPath \in relative
    /\ drfDirname \in dirnames
    /\ drfThreads = threads
    /\ drfDate = 0
    /\ drfClock = 1
    /\ drfInodes = <<(<<>>)>>
    /\ drfDir = (DrfName(0, 0, 0) :> [ino |-> 1, mtime |-> 1])
    /\ drfHandle = 1
    /\ drfBuf = <<>>
    /\ drfPath = [name |-> DrfName(0, 0, 0), dotted |-> FALSE]
    /\ drfLastRot = 0
    /\ drfPc = [t \in DrfAllThreads |-> "idle"]
    /\ drfMsg = [t \in DrfAllThreads |-> 0]
    /\ drfNow = [t \in DrfAllThreads |-> 0]
    /\ drfPrev = [t \in DrfAllThreads |-> DrfNoPath]
    /\ drfNew = [t \in DrfAllThreads |-> [name |-> DrfNoName, ino |-> 0]]
    /\ drfZsrc = [t \in DrfAllThreads |-> DrfNoName]
    /\ drfZret = [t \in DrfAllThreads |-> "idle"]
    /\ drfRest = [t \in DrfAllThreads |-> <<>>]
    /\ drfSeen = [t \in DrfAllThreads |-> 0]
    /\ drfCount = [t \in DrfAllThreads |-> 0]
    /\ drfNext = 0
    /\ drfLogged = {}
    /\ drfKilled = FALSE

\* two threads share the sink (an absolute file name, max_size set)
DrfInit == DrfInitWith(DrfAllThreads, {0, 1}, {DrfSizeLimit}, {FALSE}, {1}, {1}, {FALSE})

\* one thread has the sink to itself
DrfInitSeq == DrfInitWith({1}, {0, 1, 2}, {0, DrfSizeLimit}, BOOLEAN, {1}, {1}, {FALSE})

\* one thread, max_size set, short or long entries, log() only or also
\* log_batch()
DrfInitSize ==
    DrfInitWith({1}, {0, 1}, {1, DrfSizeLimit, DrfMaxBatch + 1}, {FALSE},
                {1, DrfBigEntry}, {1, DrfMaxBatch}, {FALSE})

\* one thread, options.dirname set
DrfInitDir == DrfInitWith({1}, {0, 1, 2}, {0, DrfSizeLimit}, {FALSE}, {1}, {1}, {TRUE})

DrfIdle ==
    /\ drfZip = FALSE
    /\ drfMaxFiles = 0
    /\ drfMaxSize = 0
    /\ drfEntry = 0
    /\ drfBatch = 0
    /\ drfRelPath = FALSE
    /\ drfDirname = FALSE
    /\ drfThreads = {}
    /\ drfDate = 0
    /\ drfClock = 0
    /\ drfInodes = <<>>
    /\ drfDir = <<>>
    /\ drfHandle = 0
    /\ drfBuf = <<>>
    /\ drfPath = DrfNoPath
    /\ drfLastRot = 0
    /\ drfPc = [t \in DrfAllThreads |-> "idle"]
    /\ drfMsg = [t \in DrfAllThreads |-> 0]
    /\ drfNow = [t \in DrfAllThreads |-> 0]
    /\ drfPrev = [t \in DrfAllThreads |-> DrfNoPath]
    /\ drfNew = [t \in DrfAllThreads |-> [name |-> DrfNoName, ino |-> 0]]
    /\ drfZsrc = [t \in DrfAllThreads |-> DrfNoName]
    /\ drfZret = [t \in DrfAllThreads |-> "idle"]
    /\ drfRest = [t \in DrfAllThreads |-> <<>>]
    /\ drfSeen = [t \in DrfAllThreads |-> 0]
    /\ drfCount = [t \in DrfAllThreads |-> 0]
    /\ drfNext = 0
    /\ drfLogged = {}
    /\ drfKilled = FALSE

\* --- the file system --------------------------------------------------------

DrfRemoveEntry(dir, n) == [x \in (DOMAIN dir) \ {n} |-> dir[x]]

\* a write to inode ino sets the modification time of the file that has it
DrfTouch(dir, ino, time) ==
    [x \in DOMAIN dir |-> IF dir[x].ino = ino THEN [ino |-> ino, mtime |-> time] ELSE dir[x]]

\* BufWriter::flush on `file` (dropping the BufWriter does the same): the
\* buffered entries are written to the file it has open
DrfWriteOut ==
    /\ drfBuf' = <<>>
    /\ IF drfBuf = <<>>
       THEN UNCHANGED drfFs
       ELSE /\ drfInodes' = [drfInodes EXCEPT ![drfHandle] = @ \o drfBuf]
            /\ drfDir' = DrfTouch(drfDir, drfHandle, drfClock + 1)
            /\ drfClock' = drfClock + 1

\* get_file_size, after its flush: metadata().len() of the open file
DrfFileSize == (Len(drfInodes[drfHandle]) + Len(drfBuf)) * DrfEntrySize

\* create_unique_file: the first counter whose name does not exist
DrfUniqueCounter(d) ==
    CHOOSE c \in 0..(DrfMaxLogs + 1) :
        /\ DrfName(d, c, 0) \notin DOMAIN drfDir
        /\ \A b \in 0..(c-1) : DrfName(d, b, 0) \in DOMAIN drfDir

\* compress_file: the first counter whose archive name does not exist
DrfGzCounter(n) ==
    CHOOSE k \in 0..(DrfMaxLogs + 1) :
        /\ DrfName(n.d, n.c, k + 1) \notin DOMAIN drfDir
        /\ \A b \in 0..(k-1) : DrfName(n.d, n.c, b + 1) \in DOMAIN drfDir

\* --- Transport::log ---------------------------------------------------------

\* should_rotate(new_entry_size): the date comparison, then the size test
\* (which flushes `file` to read its length)
DrfDateChanged == drfLastRot # drfDate

DrfSizeNeverExceeded(size, new_entry_size) == FALSE

DrfSizeExceeded(size, new_entry_size) ==
    drfMaxSize # 0 /\ size + new_entry_size >= drfMaxSize

DrfShouldRotate(t) ==
    /\ t \in drfThreads
    /\ drfPc[t] = "idle"
    /\ \E n \in 1..drfBatch :
         /\ drfNext + n <= DrfMaxLogs
         /\ drfNext' = drfNext + n
         /\ drfCount' = [drfCount EXCEPT ![t] = n]
         /\ drfMsg' = [drfMsg EXCEPT ![t] = drfNext + 1]
         /\ drfSeen' = [drfSeen EXCEPT ![t] = drfHandle]
         /\ IF DrfDateChanged
            THEN /\ drfPc' = [drfPc EXCEPT ![t] = "rotFlush"]
                 /\ UNCHANGED <<drfFs, drfBuf>>
            ELSE /\ IF drfMaxSize # 0 THEN DrfWriteOut ELSE UNCHANGED <<drfFs, drfBuf>>
                 /\ drfPc' = [drfPc EXCEPT ![t] =
                        IF DrfSizeExceeded(DrfFileSize, n * DrfEntrySize)
                        THEN "rotFlush" ELSE "write"]
    /\ UNCHANGED <<drfCfg, drfDate, drfHandle, drfPath, drfLastRot, drfNow, drfPrev,
                   drfNew, drfZsrc, drfZret, drfRest, drfLogged, drfKilled>>

\* the records of the call: one for log(), the batch for log_batch()
DrfEntries(t) == [i \in 1..drfCount[t] |-> drfMsg[t] + i - 1]

\* writeln!(file, "{}", info.message) under the lock of `file`, for log_batch
\* in a loop over the batch
DrfWrite(t) ==
    /\ drfPc[t] = "write"
    /\ drfBuf' = drfBuf \o DrfEntries(t)
    /\ drfLogged' = drfLogged \cup Range(DrfEntries(t))
    /\ drfPc' = [drfPc EXCEPT ![t] = "idle"]
    /\ UNCHANGED <<drfCfg, drfDate, drfFs, drfHandle, drfPath, drfLastRot, drfLocal,
                   drfNext, drfKilled>>

\* Transport::flush
DrfFlush ==
    /\ drfThreads # {}
    /\ drfBuf # <<>>
    /\ DrfWriteOut
    /\ UNCHANGED <<drfCfg, drfDate, drfHandle, drfPath, drfLastRot, drfPc, drfLocal, drfGhost>>

\* the formatted date changes
DrfDateTick ==
    /\ drfThreads # {}
    /\ drfDate < DrfMaxDate
    /\ drfDate' = drfDate + 1
    /\ UNCHANGED <<drfCfg, drfFs, drfSink, drfPc, drfLocal, drfGhost>>

\* --- rotate ----------------------------------------------------------------

\* let now = Utc::now(); file_guard.flush()
DrfRotFlush(t) ==
    /\ drfPc[t] = "rotFlush"
    /\ drfNow' = [drfNow EXCEPT ![t] = drfDate]
    /\ DrfWriteOut
    /\ drfPc' = [drfPc EXCEPT ![t] = "rotPrev"]
    /\ UNCHANGED <<drfCfg, drfDate, drfHandle, drfPath, drfLastRot, drfMsg, drfPrev,
                   drfNew, drfZsrc, drfZret, drfRest, drfSeen, drfCount, drfGhost>>

\* let previous_file_path = self.file_path.lock().unwrap().clone()
DrfRotPrev(t) ==
    /\ drfPc[t] = "rotPrev"
    /\ drfPrev' = [drfPrev EXCEPT ![t] = drfPath]
    /\ drfPc' = [drfPc EXCEPT ![t] = "rotCreate"]
    /\ UNCHANGED <<drfCfg, drfDate, drfFs, drfSink, drfMsg, drfNow, drfNew, drfZsrc,
                   drfZret, drfRest, drfSeen, drfCount, drfGhost>>

\* Self::create_file(&self.options, &now).expect("Failed to rotate log file"):
\* the file is created, or create_dir_all or open fails with an I/O error and
\* expect panics in the thread that called log()
DrfRotCreate(t) ==
    /\ drfPc[t] = "rotCreate"
    /\ \/ LET n == DrfName(drfNow[t], DrfUniqueCounter(drfNow[t]), 0) IN
          /\ drfInodes' = Append(drfInodes, <<>>)
          /\ drfDir' = (n :> [ino |-> Len(drfInodes) + 1, mtime |-> drfClock + 1]) @@ drfDir
          /\ drfClock' = drfClock + 1
          /\ drfNew' = [drfNew EXCEPT ![t] = [name |-> n, ino |-> Len(drfInodes) + 1]]
          /\ drfPc' = [drfPc EXCEPT ![t] = "rotSwapFile"]
       \/ /\ drfPc' = [drfPc EXCEPT ![t] = "panicked"]
          /\ UNCHANGED <<drfFs, drfNew>>
    /\ UNCHANGED <<drfCfg, drfDate, drfSink, drfMsg, drfNow, drfPrev, drfZsrc, drfZret,
                   drfRest, drfSeen, drfCount, drfGhost>>

\* *file_lock = BufWriter::new(new_file): the old BufWriter is dropped
DrfRotSwapFile(t) ==
    /\ drfPc[t] = "rotSwapFile"
    /\ DrfWriteOut
    /\ drfHandle' = drfNew[t].ino
    /\ drfPc' = [drfPc EXCEPT ![t] = "rotSwapPath"]
    /\ UNCHANGED <<drfCfg, drfDate, drfPath, drfLastRot, drfLocal, drfGhost>>

\* *path_lock = new_path.  create_unique_file returns the file name as it is
\* for counter 0 and log_dir.join(name) for the others; with dirname unset
\* log_dir is "." and the join of a relative name starts with "./"
DrfDotted(n) == drfRelPath /\ n.c > 0

DrfRotSwapPath(t) ==
    /\ drfPc[t] = "rotSwapPath"
    /\ drfPath' = [name |-> drfNew[t].name, dotted |-> DrfDotted(drfNew[t].name)]
    /\ drfPc' = [drfPc EXCEPT ![t] = "rotSetLast"]
    /\ UNCHANGED <<drfCfg, drfDate, drfFs, drfHandle, drfBuf, drfLastRot, drfLocal, drfGhost>>

\* *last_rotation = now; then compress_file(&previous_file_path) if
\* zipped_archive, then cleanup_old_files(max_files) if max_files is set
DrfAfterCompress == IF drfMaxFiles # 0 THEN "cleanList" ELSE "write"

DrfRotSetLast(t) ==
    /\ drfPc[t] = "rotSetLast"
    /\ drfLastRot' = drfNow[t]
    /\ IF drfZip
       THEN /\ drfPc' = [drfPc EXCEPT ![t] = "zipCopy"]
            /\ drfZsrc' = [drfZsrc EXCEPT ![t] = drfPrev[t].name]
            /\ drfZret' = [drfZret EXCEPT ![t] = DrfAfterCompress]
       ELSE /\ drfPc' = [drfPc EXCEPT ![t] = DrfAfterCompress]
            /\ UNCHANGED <<drfZsrc, drfZret>>
    /\ UNCHANGED <<drfCfg, drfDate, drfFs, drfHandle, drfBuf, drfPath, drfMsg, drfNow,
                   drfPrev, drfNew, drfRest, drfSeen, drfCount, drfGhost>>

\* --- compress_file ----------------------------------------------------------

\* the archive is created under the first free name (create_new), the input
\* is opened and copied into it; a missing input ends compress_file with Err
\* and leaves the empty archive
DrfZipCopy(t) ==
    /\ drfPc[t] = "zipCopy"
    /\ LET src == drfZsrc[t]
           gz == DrfName(src.d, src.c, DrfGzCounter(src) + 1)
           data == IF src \in DOMAIN drfDir THEN drfInodes[drfDir[src].ino] ELSE <<>>
       IN /\ drfInodes' = Append(drfInodes, data)
          /\ drfDir' = (gz :> [ino |-> Len(drfInodes) + 1, mtime |-> drfClock + 1]) @@ drfDir
          /\ drfClock' = drfClock + 1
          /\ drfPc' = [drfPc EXCEPT ![t] =
                 IF src \in DOMAIN drfDir THEN "zipRemove" ELSE drfZret[t]]
    /\ UNCHANGED <<drfCfg, drfDate, drfSink, drfLocal, drfGhost>>

\* std::fs::remove_file(file_path): Err when the file is gone already
DrfZipRemove(t) ==
    /\ drfPc[t] = "zipRemove"
    /\ IF drfZsrc[t] \in DOMAIN drfDir
       THEN /\ drfDir' = DrfRemoveEntry(drfDir, drfZsrc[t])
            /\ drfKilled' = (drfKilled \/ (drfZret[t] = "cleanItem"
                                           /\ drfDir[drfZsrc[t]].ino = drfHandle))
       ELSE UNCHANGED <<drfDir, drfKilled>>
    /\ drfPc' = [drfPc EXCEPT ![t] = drfZret[t]]
    /\ UNCHANGED <<drfCfg, drfDate, drfInodes, drfClock, drfSink, drfLocal, drfNext, drfLogged>>

\* --- cleanup_old_files ------------------------------------------------------

\* log_files.sort_by(modification time, newest first)
RECURSIVE DrfNewestFirst(_, _)
DrfNewestFirst(dir, names) ==
    IF names = {} THEN <<>>
    ELSE LET n == CHOOSE x \in names : \A y \in names : dir[y].mtime <= dir[x].mtime
         IN <<n>> \o DrfNewestFirst(dir, names \ {n})

\* log_files.iter().skip(max_files)
DrfSkip(files, k) == IF Len(files) <= k THEN <<>> ELSE SubSeq(files, k + 1, Len(files))

\* where a file is: create_unique_file opens `filename` as it is for counter
\* 0, a path relative to the working directory, and log_dir.join(..) for the
\* other counters; compress_file puts the archive next to its source. With
\* dirname unset log_dir is the working directory.
DrfInLogDir(n) == ~drfDirname \/ n.c > 0

\* read_dir(log_dir): the files of the sink that are in log_dir
DrfReadDir == { n \in DOMAIN drfDir : DrfInLogDir(n) }

\* read_dir, the early return when there are at most max_files files, the sort
DrfCleanList(t) ==
    /\ drfPc[t] = "cleanList"
    /\ IF Cardinality(DrfReadDir) <= drfMaxFiles
       THEN /\ drfPc' = [drfPc EXCEPT ![t] = "write"]
            /\ UNCHANGED drfRest
       ELSE /\ drfRest' = [drfRest EXCEPT ![t] =
                   DrfSkip(DrfNewestFirst(drfDir, DrfReadDir), drfMaxFiles)]
            /\ drfPc' = [drfPc EXCEPT ![t] = "cleanItem"]
    /\ UNCHANGED <<drfCfg, drfDate, drfFs, drfSink, drfMsg, drfNow, drfPrev, drfNew,
                   drfZsrc, drfZret, drfSeen, drfCount, drfGhost>>

\* old_file == &current_path: read_dir yields the names joined to the
\* directory, which never start with "./"
DrfIsCurrent(old, path) == old = path.name /\ ~path.dotted

\* one round of the loop over the files beyond max_files
DrfCleanItem(t) ==
    /\ drfPc[t] = "cleanItem"
    /\ IF drfRest[t] = <<>>
       THEN /\ drfPc' = [drfPc EXCEPT ![t] = "write"]
            /\ UNCHANGED <<drfRest, drfZsrc, drfZret, drfDir, drfKilled>>
       ELSE LET old == Head(drfRest[t]) IN
            /\ drfRest' = [drfRest EXCEPT ![t] = Tail(@)]
            /\ IF DrfIsCurrent(old, drfPath)
               THEN UNCHANGED <<drfPc, drfZsrc, drfZret, drfDir, drfKilled>>
               ELSE IF drfZip /\ ~DrfIsGz(old)
               THEN /\ drfPc' = [drfPc EXCEPT ![t] = "zipCopy"]
                    /\ drfZsrc' = [drfZsrc EXCEPT ![t] = old]
                    /\ drfZret' = [drfZret EXCEPT ![t] = "cleanItem"]
                    /\ UNCHANGED <<drfDir, drfKilled>>
               ELSE /\ IF old \in DOMAIN drfDir
                       THEN /\ drfDir' = DrfRemoveEntry(drfDir, old)
                            /\ drfKilled' = (drfKilled \/ drfDir[old].ino = drfHandle)
                       ELSE UNCHANGED <<drfDir, drfKilled>>
                    /\ UNCHANGED <<drfPc, drfZsrc, drfZret>>
    /\ UNCHANGED <<drfCfg, drfDate, drfInodes, drfClock, drfSink, drfMsg, drfNow, drfPrev,
                   drfNew, drfSeen, drfCount, drfNext, drfLogged>>

\* --- claims about DailyRotateFile -------------------------------------------

DrfQuiet == (\A t \in DrfAllThreads : drfPc[t] = "idle") /\ drfBuf = <<>>

\* the places where message m stands in the files of the directory
DrfCopies(m) ==
    { <<n, i>> \in (DOMAIN drfDir) \X (1..DrfMaxLogs) :
        i <= Len(drfInodes[drfDir[n].ino]) /\ drfInodes[drfDir[n].ino][i] = m }

\* C3: with max_files unset, once every log() call has returned and the sink
\* is flushed, every logged record stands exactly once in the files the sink
\* has produced (archives counted by what they hold), whatever the
\* interleaving of the threads.
C3_RotationPreservesRecords ==
    (drfMaxFiles = 0 /\ DrfQuiet) =>
        \A m \in drfLogged : Cardinality(DrfCopies(m)) = 1

\* C6: a log() call that decided to rotate swaps out the very file its
\* decision was about: no other call's rotation comes between the decision
\* and the swap, so one trigger makes one rotation.
C6_OneRotationPerTrigger ==
    \A t \in DrfAllThreads :
        drfPc[t] \in {"rotFlush", "rotPrev", "rotCreate", "rotSwapFile"}
            => drfSeen[t] = drfHandle

\* C7: cleanup_old_files never removes (directly, or by compressing it away)
\* the file that the sink's write handle has open.
C7_CleanupSparesOpenFile == ~drfKilled

\* C40: with dirname configured, every file the sink has created (the
\* initial file, the files of rotations, whatever their counter) is inside
\* that directory, the one cleanup_old_files scans, and the path of the open
\* file is a path inside it.
C40_FilesInsideDirname ==
    drfDirname =>
        /\ \A n \in DOMAIN drfDir : DrfInLogDir(n)
        /\ DrfInLogDir(drfPath.name)

\* C8: with max_files = K >= 1 and one thread, after every log() call (and so
\* after every rotation) the directory holds at most K files of the sink, and
\* with zipped_archive at most one of them is uncompressed.
C8_AtMostMaxFiles ==
    (drfThreads = {1} /\ drfMaxFiles >= 1 /\ drfPc[1] = "idle") =>
        /\ Cardinality(DOMAIN drfDir) <= drfMaxFiles
        /\ drfZip => Cardinality({ n \in DOMAIN drfDir : ~DrfIsGz(n) }) <= 1

\* N log() calls have returned on a sink used by one thread, with max_size set,
\* max_files unset (nothing is cleaned up) and no date change
DrfAfterSizedWrites ==
    /\ drfThreads = {1}
    /\ drfBatch = 1
    /\ drfPc[1] = "idle"
    /\ drfNext >= 1
    /\ drfMaxSize # 0
    /\ drfMaxFiles = 0
    /\ drfDate = 0

\* ceil(N * s / M)
DrfCeilFiles == (drfNext * DrfEntrySize + drfMaxSize - 1) \div drfMaxSize

\* C22 as stated: after N writes of size s the directory holds at least
\* ceil(N*s/M) files, for every N, s, M >= 1.
C22_AtLeastCeilFiles ==
    DrfAfterSizedWrites => Cardinality(DOMAIN drfDir) >= DrfCeilFiles

\* C22 amended: the same for entries that fit in a file (s <= M).
C22_AtLeastCeilFilesFitting ==
    (DrfAfterSizedWrites /\ DrfEntrySize <= drfMaxSize) =>
        Cardinality(DOMAIN drfDir) >= DrfCeilFiles

\* three short entries written with max_size = 2
C22_Witness ==
    /\ DrfAfterSizedWrites
    /\ drfNext = DrfMaxLogs
    /\ DrfEntrySize = 1
    /\ drfMaxSize = DrfSizeLimit
    /\ Cardinality(DOMAIN drfDir) >= 2

\* should_rotate's condition on the sink as a log() call finds it: the two
\* formatted dates differ, or max_size is set and the length of the open file
\* (what is buffered included) plus the entry reaches it
DrfRotationDue ==
    \/ drfLastRot # drfDate
    \/ /\ drfMaxSize # 0
       /\ (Len(drfInodes[drfHandle]) + Len(drfBuf)) * drfEntry + drfEntry >= drfMaxSize

\* C29: a log() call goes into rotate() exactly when
\* the formatted date differs from that of the last rotation or max_size is
\* set and current size + entry size >= max_size; it reaches its write with
\* the old file still open if it did not rotate and with a new file open if
\* it did, and the write appends the record to the file then open.
C29_RotatesIffDue ==
    [][\A t \in drfThreads :
         /\ (drfPc[t] = "idle" /\ drfPc'[t] # "idle" /\ drfCount'[t] = 1) =>
                /\ drfPc'[t] \in {"rotFlush", "write"}
                /\ drfPc'[t] = "rotFlush" <=> DrfRotationDue
         /\ (drfPc[t] # "write" /\ drfPc'[t] = "write") =>
                IF drfPc[t] = "idle"
                THEN drfHandle' = drfSeen'[t]
                ELSE drfHandle' # drfSeen[t]
         /\ (drfPc[t] = "write" /\ drfPc'[t] = "idle" /\ drfCount[t] = 1) =>
                /\ drfHandle' = drfHandle
                /\ drfBuf' = Append(drfBuf, drfMsg[t])]_drfVars

\* a call has decided to rotate on the boundary: no date change, and the open
\* file plus the entry is exactly max_size
C29_Witness ==
    /\ drfThreads = {1}
    /\ drfPc[1] = "rotFlush"
    /\ drfCount[1] = 1
    /\ drfLastRot = drfDate
    /\ drfMaxSize # 0
    /\ Len(drfInodes[drfHandle]) >= 1
    /\ (Len(drfInodes[drfHandle]) + Len(drfBuf)) * drfEntry + drfEntry = drfMaxSize

\* the size of the log file `name`: what is on disk plus, for the open file,
\* what the BufWriter still holds
DrfSizeOf(name) ==
    (Len(drfInodes[drfDir[name].ino])
       + (IF drfDir[name].ino = drfHandle THEN Len(drfBuf) ELSE 0)) * DrfEntrySize

C13_NeverPanics == \A t \in DrfAllThreads : drfPc[t] # "panicked"

\* ===========================================================================
\* FileTransport::query (winston_file/src/lib.rs): a scan of the log file's
\* lines with the query's criteria, offset and cap, followed by a sort
\* ===========================================================================

FqMaxLines == 3       \* lines in the log file

FqMaxStart == 2       \* the largest query.start
FqMaxLimit == 1       \* the largest query.limit
FqMaxTime == 2        \* instants are 1..FqMaxTime

FqNone == [some |-> FALSE, at |-> 0]

FqSome(v) == [some |-> TRUE, at |-> v]

FqOption(S) == {FqNone} \cup { FqSome(v) : v \in S }

\* the `timestamp` value of a record: absent, a value dateparser rejects (or
\* not a string), or a date
FqStamps ==
    {[kind |-> "absent", at |-> 0], [kind |-> "garbage", at |-> 0]}
        \cup { [kind |-> "date", at |-> t] : t \in 1..FqMaxTime }

\* a line of the file: JSON with level and message or not, its level, its
\* timestamp
FqLines ==
    { [json |-> FALSE, level |-> "info", ts |-> [kind |-> "absent", at |-> 0]] }
        \cup [json : {TRUE}, level : {"info", "error"}, ts : FqStamps]

FqFiles == UNION { [1..n -> FqLines] : n \in 0..FqMaxLines }

\* LogQuery: from, until, start, limit, order, levels (search_term and filter
\* unset, fields empty)
FqQueries ==
    [from : FqOption({FqMaxTime}), until : FqOption({1}),
     start : FqOption(1..FqMaxStart), limit : FqOption(0..FqMaxLimit),
     order : {"Ascending", "Descending"}, levels : {{}, {"error"}}]

\* the value of fqQuery before any call: a query with every criterion unset
FqNoQuery ==
    [from |-> FqNone, until |-> FqNone, start |-> FqNone, limit |-> FqNone,
     order |-> "Descending", levels |-> {}]

\* Duration::days(1) on the scale of the instants, and the limit of new()
FqDay == 1
LogQueryLimit == 50

\* LogQuery::new() called at `now` (Default::default() is LogQuery::new())
LogQueryNew(now) ==
    [from |-> FqSome(now - FqDay), until |-> FqSome(now), start |-> FqSome(0),
     limit |-> FqSome(LogQueryLimit), order |-> "Descending", levels |-> {}]

\* the builder method levels()
LogQueryLevels(query, levels) == [query EXCEPT !.levels = levels]

VARIABLES
    fqFile,         \* the lines of the file at options.filename
    fqQuery,        \* the query of the last query() call
    fqNow,          \* when that query was built by LogQuery::new(); 0: not by new()
    fqRes           \* what that call returned: the records by line number

fqVars == <<fqFile, fqQuery, fqNow, fqRes>>

FqInit ==
    /\ fqFile \in FqFiles
    /\ fqQuery = FqNoQuery
    /\ fqNow = 0
    /\ fqRes = [state |-> "none", recs |-> <<>>]

FqIdle ==
    /\ fqFile = <<>>
    /\ fqQuery = FqNoQuery
    /\ fqNow = 0
    /\ fqRes = [state |-> "none", recs |-> <<>>]

\* extract_timestamp: Some(instant) only for a string that dateparser accepts
extract_timestamp_lenient(entry) == FqSome(entry.ts.at)

extract_timestamp(entry) ==
    IF entry.ts.kind = "date" THEN FqSome(entry.ts.at) ELSE FqNone

\* matches_query, with search_term and filter unset
matches_query(query, entry) ==
    /\ query.levels = {} \/ entry.level \in query.levels
    /\ query.from.some =>
          /\ extract_timestamp(entry).some
          /\ extract_timestamp(entry).at >= query.from.at
    /\ query.until.some =>
          /\ extract_timestamp(entry).some
          /\ extract_timestamp(entry).at <= query.until.at

\* the loop of query over reader.lines().enumerate(): `index` counts the
\* lines of the file from 0, `i` is the same line counted from 1
RECURSIVE FqScan(_, _, _, _)
FqScan(lines, query, i, results) ==
    IF i > Len(lines) THEN results
    ELSE IF parse_log_entry(lines[i]) /\ matches_query(query, lines[i])
    THEN LET index == i - 1
             start == IF query.start.some THEN query.start.at ELSE 0
             pushed == IF index >= start THEN Append(results, i) ELSE results
         IN  IF query.limit.some /\ Len(pushed) >= query.limit.at /\ query.limit.at # 0
             THEN pushed
             ELSE FqScan(lines, query, i + 1, pushed)
    ELSE FqScan(lines, query, i + 1, results)

\* Option<DateTime> as a sort key: None sorts before every Some
FqKey(lines, i) ==
    IF extract_timestamp(lines[i]).some THEN extract_timestamp(lines[i]).at ELSE 0

\* sort_results: a stable sort by timestamp in the query's order
RECURSIVE FqInsert(_, _, _, _)
FqInsert(lines, order, sorted, i) ==
    IF sorted = <<>> THEN <<i>>
    ELSE LET last == sorted[Len(sorted)]
             after == IF order = "Ascending"
                      THEN FqKey(lines, last) <= FqKey(lines, i)
                      ELSE FqKey(lines, last) >= FqKey(lines, i)
         IN  IF after THEN Append(sorted, i)
             ELSE Append(FqInsert(lines, order, SubSeq(sorted, 1, Len(sorted) - 1), i), last)

RECURSIVE sort_results(_, _, _)
sort_results(lines, order, entries) ==
    IF entries = <<>> THEN <<>>
    ELSE FqInsert(lines, order,
                  sort_results(lines, order, SubSeq(entries, 1, Len(entries) - 1)),
                  entries[Len(entries)])

\* Transport::query: File::open may fail; else scan, sort (the projection on
\* query.fields changes no record's identity). One call is made per run.
FqQuery(query) ==
    /\ fqRes.state = "none"
    /\ fqQuery' = query
    /\ \/ fqRes' = [state |-> "err", recs |-> <<>>]
       \/ fqRes' = [state |-> "ok",
                    recs |-> sort_results(fqFile, query.order, FqScan(fqFile, query, 1, <<>>))]
    /\ UNCHANGED <<fqFile, fqNow>>

\* transport.query(&LogQuery::new().levels(..)) or, with no level named,
\* transport.query(&LogQuery::new()): from and until are never called. The
\* query is built after every record of the file was written.
FqQueryNew(levels) ==
    LET now == FqMaxTime + 1
        query == LogQueryLevels(LogQueryNew(now), levels)
    IN  /\ fqRes.state = "none"
        /\ fqQuery' = query
        /\ fqNow' = now
        /\ \/ fqRes' = [state |-> "err", recs |-> <<>>]
           \/ fqRes' = [state |-> "ok",
                        recs |-> sort_results(fqFile, query.order,
                                              FqScan(fqFile, query, 1, <<>>))]
        /\ UNCHANGED fqFile

\* --- claims about FileTransport::query ---------------------------------------

\* the lines of the file that are records matching the query, in file order
FqMatching ==
    SelectSeq([i \in DOMAIN fqFile |-> i],
              LAMBDA i : parse_log_entry(fqFile[i]) /\ matches_query(fqQuery, fqFile[i]))

\* a sequence without its first n elements, and its first n elements
FqSkip(seq, n) == [i \in 1..(IF Len(seq) > n THEN Len(seq) - n ELSE 0) |-> seq[i + n]]

FqTake(seq, n) == [i \in 1..(IF Len(seq) > n THEN n ELSE Len(seq)) |-> seq[i]]

\* C19: the result is the matching records without the first `start` of
\* them, cut after `limit` records.
C19_StartOnMatchesLimitCaps ==
    fqRes.state = "ok" =>
        LET start == IF fqQuery.start.some THEN fqQuery.start.at ELSE 0
            rest == FqSkip(FqMatching, start)
        IN  /\ Range(fqRes.recs) \subseteq Range(rest)
            /\ fqQuery.limit.some =>
                  /\ Len(fqRes.recs) <= fqQuery.limit.at
                  /\ Range(fqRes.recs) = Range(FqTake(rest, fqQuery.limit.at))
            /\ ~fqQuery.limit.some => Range(fqRes.recs) = Range(rest)

\* C20: with from or until set no record without a parseable timestamp is in
\* the result; with neither set (and no offset or cap) every record of the
\* queried levels is in it, whatever its timestamp.
C20_TimeRangeNeedsTimestamp ==
    fqRes.state = "ok" =>
        /\ (fqQuery.from.some \/ fqQuery.until.some) =>
               \A i \in Range(fqRes.recs) : fqFile[i].ts.kind = "date"
        /\ (~fqQuery.from.some /\ ~fqQuery.until.some
                /\ ~fqQuery.start.some /\ ~fqQuery.limit.some) =>
               \A i \in DOMAIN fqFile :
                   (parse_log_entry(fqFile[i])
                        /\ (fqQuery.levels = {} \/ fqFile[i].level \in fqQuery.levels))
                       => i \in Range(fqRes.recs)

\* a query with a time bound has run over a file with a record that has no
\* timestamp, one whose timestamp does not parse and one in range, and
\* returned a record; and the same file queried without time bounds would
\* be covered by the second half
C20_Witness ==
    /\ fqRes.state = "ok"
    /\ fqQuery.from.some
    /\ fqRes.recs # <<>>
    /\ \E i, j \in DOMAIN fqFile :
          /\ parse_log_entry(fqFile[i]) /\ fqFile[i].ts.kind = "absent"
          /\ parse_log_entry(fqFile[j]) /\ fqFile[j].ts.kind = "garbage"
          /\ fqQuery.levels = {}

\* C39: a query built with LogQuery::new() on which from and until were
\* never called has from and until unset, and query() returns every record of
\* the queried levels whatever its timestamp.
C39_NewQueryHasNoTimeRange ==
    (fqNow # 0 /\ fqRes.state = "ok") =>
        /\ ~fqQuery.from.some
        /\ ~fqQuery.until.some
        /\ \A i \in DOMAIN fqFile :
               (parse_log_entry(fqFile[i])
                    /\ (fqQuery.levels = {} \/ fqFile[i].level \in fqQuery.levels))
                   => i \in Range(fqRes.recs)

\* ===========================================================================
\* MongoDBTransport (winston_mongodb/src/lib.rs): a handle with an mpsc sender
\* and an exit_signal flag, and a background task that inserts what it receives
\* ===========================================================================

MgMaxLogs == 3        \* records handed to log()/log_batch() in one run
MgMaxCalls == 1       \* query() calls made in one run
MgMaxShutdowns == 2   \* shutdown() calls made in one run

MgMaxBatch == 2       \* the longest list handed to log_batch()

VARIABLES
    mgChan,         \* the mpsc channel: messages sent and not yet received
    mgExit,         \* exit_signal
    mgWorker,       \* "none" | "starting" | "running" | "exited" | "panicked"
    mgColl,         \* the documents inserted into the collection, in order
    mgInsertFailed, \* an insert_one/insert_many has returned Err
    mgHandle,       \* "none" | "idle" | "waitQuery" | "shutting" | "gone"
    mgNext,         \* record numbers used so far (an empty log_batch uses one up)
    mgCalls,        \* number of query() calls made so far
    mgShut,         \* number of shutdown() calls made so far
    mgSnap,         \* the records enqueued before the first shutdown() call
    mgSent,         \* the records whose message the channel accepted
    mgReply         \* the reply the task sent on the query's response channel

mgVars == <<mgChan, mgExit, mgWorker, mgColl, mgInsertFailed, mgHandle, mgNext,
            mgCalls, mgShut, mgSnap, mgSent, mgReply>>

\* new_inner followed by the spawn of the task
MgInit ==
    /\ mgChan = <<>>
    /\ mgExit = FALSE
    /\ mgWorker = "starting"
    /\ mgColl = <<>>
    /\ mgInsertFailed = FALSE
    /\ mgHandle = "idle"
    /\ mgNext = 0
    /\ mgCalls = 0
    /\ mgShut = 0
    /\ mgSnap = {}
    /\ mgSent = {}
    /\ mgReply = "none"

MgIdle ==
    /\ mgChan = <<>>
    /\ mgExit = FALSE
    /\ mgWorker = "none"
    /\ mgColl = <<>>
    /\ mgInsertFailed = FALSE
    /\ mgHandle = "none"
    /\ mgNext = 0
    /\ mgCalls = 0
    /\ mgShut = 0
    /\ mgSnap = {}
    /\ mgSent = {}
    /\ mgReply = "none"

\* the receiver is owned by the task: it exists from new_inner on and is
\* dropped when the task ends
MgReceiverAlive == mgWorker \in {"starting", "running"}

\* sender.send(msg): fails, and the message is dropped, once the receiver is gone
MgSend(msg) == IF MgReceiverAlive THEN Append(mgChan, msg) ELSE mgChan

\* --- the background task ---------------------------------------------------

\* Client::with_uri_str(..).await.unwrap() and create_indexes(..).await.unwrap()
MgStart ==
    /\ mgWorker = "starting"
    /\ \/ /\ mgWorker' = "running"
          /\ mgChan' = mgChan
       \/ /\ mgWorker' = "panicked"
          /\ mgChan' = <<>>
    /\ UNCHANGED <<mgExit, mgColl, mgInsertFailed, mgHandle, mgNext, mgCalls,
                   mgShut, mgSnap, mgSent, mgReply>>

\* collection.insert_one / insert_many: an Err is printed and the documents
\* are not in the collection
MgInsert(coll, docs, ok) == IF ok THEN coll \o docs ELSE coll

\* Ok(Log(log_doc)) and Ok(LogBatch(log_docs)): the loop condition read
\* exit_signal as false (a Relaxed load may do so after the store as well)
MgRecvLog ==
    /\ mgWorker = "running"
    /\ mgChan # <<>>
    /\ Head(mgChan).type \in {"Log", "LogBatch"}
    /\ mgChan' = Tail(mgChan)
    /\ IF Head(mgChan).docs = <<>>
       THEN UNCHANGED <<mgColl, mgInsertFailed>>
       ELSE \E ok \in BOOLEAN :
              /\ mgColl' = MgInsert(mgColl, Head(mgChan).docs, ok)
              /\ mgInsertFailed' = (mgInsertFailed \/ ~ok)
    /\ UNCHANGED <<mgExit, mgWorker, mgHandle, mgNext, mgCalls, mgShut, mgSnap,
                   mgSent, mgReply>>

\* Ok(Query(query, response_tx))
MgRecvQuery ==
    /\ mgWorker = "running"
    /\ mgChan # <<>>
    /\ Head(mgChan).type = "Query"
    /\ mgChan' = Tail(mgChan)
    /\ \E ok \in BOOLEAN : mgReply' = (IF ok THEN "ok" ELSE "err")
    /\ UNCHANGED <<mgExit, mgWorker, mgColl, mgInsertFailed, mgHandle, mgNext,
                   mgCalls, mgShut, mgSnap, mgSent>>

\* Ok(Shutdown) => break: the task ends and the receiver is dropped with
\* whatever is still queued
MgRecvShutdown ==
    /\ mgWorker = "running"
    /\ mgChan # <<>>
    /\ Head(mgChan).type = "Shutdown"
    /\ mgWorker' = "exited"
    /\ mgChan' = <<>>
    /\ UNCHANGED <<mgExit, mgColl, mgInsertFailed, mgHandle, mgNext, mgCalls,
                   mgShut, mgSnap, mgSent, mgReply>>

\* while !exit_signal.load(Relaxed): the loop condition reads true and the
\* loop ends without another recv_timeout
MgExitSignal ==
    /\ mgWorker = "running"
    /\ mgExit
    /\ mgWorker' = "exited"
    /\ mgChan' = <<>>
    /\ UNCHANGED <<mgExit, mgColl, mgInsertFailed, mgHandle, mgNext, mgCalls,
                   mgShut, mgSnap, mgSent, mgReply>>

\* Err(RecvTimeoutError::Disconnected) => break
MgDisconnected ==
    /\ mgWorker = "running"
    /\ mgChan = <<>>
    /\ mgHandle = "gone"
    /\ mgWorker' = "exited"
    /\ UNCHANGED <<mgChan, mgExit, mgColl, mgInsertFailed, mgHandle, mgNext,
                   mgCalls, mgShut, mgSnap, mgSent, mgReply>>

\* --- the handle --------------------------------------------------------------

\* Transport::log (n = 1, a Log message) and Transport::log_batch (a LogBatch
\* message with n documents): a send error is printed
MgLogCall(type, n) ==
    /\ mgHandle = "idle"
    /\ mgNext + (IF n = 0 THEN 1 ELSE n) <= MgMaxLogs
    /\ mgNext' = mgNext + (IF n = 0 THEN 1 ELSE n)
    /\ mgChan' = MgSend([type |-> type, docs |-> [i \in 1..n |-> mgNext + i]])
    /\ mgSent' = (IF MgReceiverAlive THEN mgSent \cup (mgNext + 1)..(mgNext + n) ELSE mgSent)
    /\ UNCHANGED <<mgExit, mgWorker, mgColl, mgInsertFailed, mgHandle, mgCalls,
                   mgShut, mgSnap, mgReply>>

MgLog == MgLogCall("Log", 1)

MgLogBatch == \E n \in 0..MgMaxBatch : MgLogCall("LogBatch", n)

\* Transport::query up to the blocking recv
MgQueryCall ==
    /\ mgHandle = "idle"
    /\ mgCalls < MgMaxCalls
    /\ mgCalls' = mgCalls + 1
    /\ mgChan' = MgSend([type |-> "Query", docs |-> <<>>])
    /\ mgHandle' = "waitQuery"
    /\ UNCHANGED <<mgExit, mgWorker, mgColl, mgInsertFailed, mgNext, mgShut,
                   mgSnap, mgSent, mgReply>>

\* query returns: with the task's reply, or with Err when the send failed or
\* the response sender was dropped unanswered
MgQueryReturn ==
    /\ mgHandle = "waitQuery"
    /\ mgReply # "none" \/ ~MgReceiverAlive
    /\ mgHandle' = "idle"
    /\ mgReply' = "none"
    /\ UNCHANGED <<mgChan, mgExit, mgWorker, mgColl, mgInsertFailed, mgNext,
                   mgCalls, mgShut, mgSnap, mgSent>>

\* shutdown(&self), first statement: sender.send(Shutdown)
MgShutdownSend ==
    /\ mgHandle = "idle"
    /\ mgChan' = MgSend([type |-> "Shutdown", docs |-> <<>>])
    /\ mgShut < MgMaxShutdowns
    /\ mgHandle' = "shutting"
    /\ mgShut' = mgShut + 1
    /\ mgSnap' = (IF mgShut > 0 THEN mgSnap ELSE mgSent)
    /\ UNCHANGED <<mgExit, mgWorker, mgColl, mgInsertFailed, mgNext, mgCalls,
                   mgSent, mgReply>>

\* shutdown(&self), second statement: exit_signal.store(true, Relaxed)
MgShutdownStore ==
    /\ mgHandle = "shutting"
    /\ mgExit' = TRUE
    /\ mgHandle' = "idle"
    /\ UNCHANGED <<mgChan, mgWorker, mgColl, mgInsertFailed, mgNext, mgCalls,
                   mgShut, mgSnap, mgSent, mgReply>>

\* the handle goes out of scope: MongoDBTransport has no Drop impl, the sender
\* is dropped with it
MgDropHandle ==
    /\ mgHandle = "idle"
    /\ mgHandle' = "gone"
    /\ UNCHANGED <<mgChan, mgExit, mgWorker, mgColl, mgInsertFailed, mgNext,
                   mgCalls, mgShut, mgSnap, mgSent, mgReply>>

\* --- claims about MongoDBTransport -------------------------------------------

\* C18: once shutdown() has been called and the task's loop has ended, every
\* document enqueued before that shutdown() call is in the collection (no
\* insert having failed).
C18_ShutdownDrainsAndExits ==
    (mgShut > 0 /\ mgWorker = "exited" /\ ~mgInsertFailed) => mgSnap \subseteq Range(mgColl)

\* ===========================================================================
\* HttpTransport (winston_http/src/lib.rs): records are POSTed one by one or
\* in batches; the buffer is behind a Mutex
\* ===========================================================================

HtMaxLogs == 3        \* records handed to log(), log_batch() and ingest()

HtBatchSizes == 0..3  \* options.batch_size, 0 for None

HtPostOutcomes == {"ok", "transport", "status"}

VARIABLES
    htBatchSize,    \* options.batch_size (0: None)
    htBuffer,       \* buffer
    htServer,       \* the records of the POSTs answered with a 2xx status
    htNext,         \* number of records made so far
    htLogPosts,     \* the bodies log() has POSTed, in order, and what each POST met
    htLast          \* the last call: its name, what its POST met, what it
                    \* returned, whether it printed a diagnostic

htVars == <<htBatchSize, htBuffer, htServer, htNext, htLast, htLogPosts>>

HtInit ==
    /\ htBatchSize \in HtBatchSizes
    /\ htBuffer = <<>>
    /\ htServer = {}
    /\ htNext = 0
    /\ htLast = [op |-> "none", post |-> "none", res |-> "unit", diag |-> FALSE]
    /\ htLogPosts = <<>>

HtIdle ==
    /\ htBatchSize = 0
    /\ htBuffer = <<>>
    /\ htServer = {}
    /\ htNext = 0
    /\ htLast = [op |-> "none", post |-> "none", res |-> "unit", diag |-> FALSE]
    /\ htLogPosts = <<>>

\* send_logs: nothing is sent for an empty list; a transport failure and a
\* non-2xx status are both Err. `outcome` is what the POST meets.
send_logs_always_ok(logs, outcome) ==
    [post |-> IF logs = <<>> THEN "none" ELSE outcome, res |-> "ok"]

send_logs(logs, outcome) ==
    IF logs = <<>> THEN [post |-> "none", res |-> "ok"]
    ELSE [post |-> outcome, res |-> IF outcome = "ok" THEN "ok" ELSE "err"]

\* Proxy::ingest builds and sends the request itself, also for an empty list
HtIngestPost(logs, outcome) ==
    [post |-> outcome, res |-> IF outcome = "ok" THEN "ok" ELSE "err"]

HtReceived(server, logs, sent) ==
    IF sent.post = "ok" THEN server \cup Range(logs) ELSE server

\* fire-and-forget callers: `if let Err(e) = self.send_logs(..) { eprintln!(..) }`
HtSwallow(op, sent) ==
    [op |-> op, post |-> sent.post, res |-> "unit", diag |-> (sent.res = "err")]

\* buffer.len() >= batch_size
HtBatchOverfull(buffer) == Len(buffer) > htBatchSize

HtBatchReady(buffer) == Len(buffer) >= htBatchSize

\* Transport::log
HtLog ==
    /\ htNext < HtMaxLogs
    /\ htNext' = htNext + 1
    /\ \E outcome \in HtPostOutcomes :
         IF htBatchSize > 1
         THEN LET pushed == Append(htBuffer, htNext + 1) IN
              IF HtBatchReady(pushed)
              THEN /\ htBuffer' = <<>>
                   /\ htLogPosts' = Append(htLogPosts, [logs |-> pushed, post |-> outcome])
                   /\ htServer' = HtReceived(htServer, pushed, send_logs(pushed, outcome))
                   /\ htLast' = HtSwallow("log", send_logs(pushed, outcome))
              ELSE /\ htBuffer' = pushed
                   /\ htLogPosts' = htLogPosts
                   /\ htServer' = htServer
                   /\ htLast' = [op |-> "log", post |-> "none", res |-> "unit", diag |-> FALSE]
         ELSE /\ htBuffer' = htBuffer
              /\ htLogPosts' = Append(htLogPosts, [logs |-> <<htNext + 1>>, post |-> outcome])
              /\ htServer' = HtReceived(htServer, <<htNext + 1>>, send_logs(<<htNext + 1>>, outcome))
              /\ htLast' = HtSwallow("log", send_logs(<<htNext + 1>>, outcome))
    /\ UNCHANGED htBatchSize

\* Transport::log_batch with n records
HtLogBatch ==
    \E n \in 0..2, outcome \in HtPostOutcomes :
        LET logs == [i \in 1..n |-> htNext + i] IN
        /\ htNext + n <= HtMaxLogs
        /\ htNext' = htNext + n
        /\ htServer' = HtReceived(htServer, logs, send_logs(logs, outcome))
        /\ htLast' = HtSwallow("log_batch", send_logs(logs, outcome))
        /\ UNCHANGED <<htBatchSize, htBuffer, htLogPosts>>

\* Transport::flush: the buffer is drained and send_logs' result returned
HtFlush ==
    \E outcome \in HtPostOutcomes :
        LET sent == send_logs(htBuffer, outcome) IN
        /\ htBuffer' = <<>>
        /\ htServer' = HtReceived(htServer, htBuffer, sent)
        /\ htLast' = [op |-> "flush", post |-> sent.post, res |-> sent.res, diag |-> FALSE]
        /\ UNCHANGED <<htBatchSize, htNext, htLogPosts>>

\* Proxy::ingest with n records
HtIngest ==
    \E n \in 0..1, outcome \in HtPostOutcomes :
        LET logs == [i \in 1..n |-> htNext + i]
            sent == HtIngestPost(logs, outcome) IN
        /\ htNext + n <= HtMaxLogs
        /\ htNext' = htNext + n
        /\ htServer' = HtReceived(htServer, logs, sent)
        /\ htLast' = [op |-> "ingest", post |-> sent.post, res |-> sent.res, diag |-> FALSE]
        /\ UNCHANGED <<htBatchSize, htBuffer, htLogPosts>>

\* --- claims about HttpTransport ----------------------------------------------

HtPostFailed == htLast.post \in {"transport", "status"}

\* C21: flush() and ingest() return Err exactly when their POST failed;
\* log() and log_batch() return normally and print a diagnostic exactly then.
C21_FailedPostReported ==
    /\ htLast.op \in {"flush", "ingest"} =>
          /\ htLast.res = (IF HtPostFailed THEN "err" ELSE "ok")
          /\ ~htLast.diag
    /\ htLast.op \in {"log", "log_batch"} =>
          /\ htLast.res = "unit"
          /\ htLast.diag <=> HtPostFailed

\* flush() has POSTed buffered records, met a non-2xx status and returned Err
C21_Witness ==
    /\ htLast.op = "flush"
    /\ htLast.post = "status"
    /\ htLast.res = "err"
    /\ htBatchSize > 1
    /\ htNext >= 1

\* the records of a sequence of POST bodies, in order
RECURSIVE HtFlatten(_)
HtFlatten(posts) ==
    IF posts = <<>> THEN <<>> ELSE Head(posts).logs \o HtFlatten(Tail(posts))

\* C32: with batch_size = B > 1 the buffer holds fewer than B records after
\* every log() call and log() POSTs records in log order in groups of exactly
\* B; with batch_size unset or <= 1 every log() call POSTs its own record at
\* once and the buffer stays empty.
C32_LogBatchesOfB ==
    LET logged == HtFlatten(htLogPosts) IN
    /\ \A i, j \in DOMAIN logged : i < j => logged[i] < logged[j]
    /\ htBatchSize > 1 =>
          /\ Len(htBuffer) < htBatchSize
          /\ \A i \in DOMAIN htLogPosts : Len(htLogPosts[i].logs) = htBatchSize
          /\ (htLast.op = "log" /\ htLast.post = "none") =>
                (htBuffer # <<>> /\ htBuffer[Len(htBuffer)] = htNext)
    /\ htBatchSize <= 1 =>
          /\ htBuffer = <<>>
          /\ \A i \in DOMAIN htLogPosts : Len(htLogPosts[i].logs) = 1
          /\ htLast.op = "log" =>
                (htLogPosts # <<>> /\ htLogPosts[Len(htLogPosts)].logs = <<htNext>>)

\* with batch_size 2, a second log() has POSTed the two buffered records
C32_Witness ==
    /\ htBatchSize = 2
    /\ htLast.op = "log"
    /\ htLogPosts # <<>>
    /\ htLogPosts[Len(htLogPosts)].logs = <<htNext - 1, htNext>>
    /\ htBuffer = <<>>

\* C37: when the POST of a drained batch fails inside log() or flush(), the
\* drained records are in the buffer again afterwards, for a later flush().
C37_FailedBatchKept ==
    [][(/\ htLast'.op \in {"log", "flush"}
        /\ htLast'.post \in {"transport", "status"}
        /\ htBatchSize > 1) =>
            \A r \in Range(htBuffer) : r \in Range(htBuffer')]_htVars

\* ===========================================================================
\* TransportWriter / TransportWriterRef (winston_transport/src/
\* transport_adapters.rs): io::Write over a Transport, one record per line
\* ===========================================================================

TwMaxBytes == 4       \* bytes written in one run
TwMaxFlushes == 1     \* flush() calls made in one run

\* the bytes that matter to the adapter: a letter, CR, LF
TwBytes == {"a", "CR", "LF"}

TwInputs == UNION { [1..n -> TwBytes] : n \in 0..TwMaxBytes }

VARIABLES
    twInput,        \* the bytes the caller writes in this run, concatenated
    twPos,          \* how many of them have been handed to write() so far
    twBuffer,       \* buffer
    twOut,          \* the records passed to transport.log, in order
    twFlushAt       \* the values of twPos at which flush() was called

twVars == <<twInput, twPos, twBuffer, twOut, twFlushAt>>

TwInit ==
    /\ twInput \in TwInputs
    /\ twPos = 0
    /\ twBuffer = <<>>
    /\ twOut = <<>>
    /\ twFlushAt = <<>>

TwIdle ==
    /\ twInput = <<>>
    /\ twPos = 0
    /\ twBuffer = <<>>
    /\ twOut = <<>>
    /\ twFlushAt = <<>>

\* buffer.iter().position(|&b| b == b'\n'), counted from 1; 0 for None
TwPosition(buffer) ==
    IF \E i \in DOMAIN buffer : buffer[i] = "LF"
    THEN CHOOSE i \in DOMAIN buffer :
            buffer[i] = "LF" /\ \A j \in 1..(i - 1) : buffer[j] # "LF"
    ELSE 0

\* trim_end_matches(&['\r', '\n'][..])
RECURSIVE TwTrimEnd(_)
TwTrimEnd(line) ==
    IF line # <<>> /\ line[Len(line)] \in {"CR", "LF"}
    THEN TwTrimEnd(SubSeq(line, 1, Len(line) - 1))
    ELSE line

\* the loop of write (and flush_buffered_lines): while the buffer holds a
\* newline, drain through it and log the trimmed line; the result is
\* <<what is left in the buffer, the records logged>>
TwDrainFirstLine(buffer, out) ==
    LET pos == TwPosition(buffer) IN
    IF pos = 0 THEN <<buffer, out>>
    ELSE <<SubSeq(buffer, pos + 1, Len(buffer)),
           Append(out, TwTrimEnd(SubSeq(buffer, 1, pos)))>>

RECURSIVE TwDrainLines(_, _)
TwDrainLines(buffer, out) ==
    LET pos == TwPosition(buffer) IN
    IF pos = 0 THEN <<buffer, out>>
    ELSE TwDrainLines(SubSeq(buffer, pos + 1, Len(buffer)),
                      Append(out, TwTrimEnd(SubSeq(buffer, 1, pos))))

\* Write::write(buf) with the next k bytes of the input
TwWrite(k) ==
    /\ twPos + k <= Len(twInput)
    /\ LET buf == SubSeq(twInput, twPos + 1, twPos + k)
           done == TwDrainLines(twBuffer \o buf, twOut) IN
       /\ twBuffer' = done[1]
       /\ twOut' = done[2]
    /\ twPos' = twPos + k
    /\ UNCHANGED <<twInput, twFlushAt>>

\* Write::flush: a non-empty buffer is logged as it is, then transport.flush
TwFlush ==
    /\ Len(twFlushAt) < TwMaxFlushes
    /\ twOut' = (IF twBuffer # <<>> THEN Append(twOut, twBuffer) ELSE twOut)
    /\ twBuffer' = <<>>
    /\ twFlushAt' = Append(twFlushAt, twPos)
    /\ UNCHANGED <<twInput, twPos>>

\* --- claims about TransportWriter ---------------------------------------------

\* the records of a byte string: one per newline-terminated line, trimmed, and
\* the rest, if any, as it is
RECURSIVE TwLines(_, _)
TwLines(bytes, line) ==
    IF bytes = <<>> THEN (IF line = <<>> THEN <<>> ELSE <<line>>)
    ELSE IF Head(bytes) = "LF"
         THEN <<TwTrimEnd(line)>> \o TwLines(Tail(bytes), <<>>)
         ELSE TwLines(Tail(bytes), Append(line, Head(bytes)))

\* C23: after writes that hand over all the bytes and one flush at the end,
\* the records are those of the concatenation, however it was split; and after
\* every write the buffer holds no newline.
C23_RecordsOfConcatenation ==
    /\ \A i \in DOMAIN twBuffer : twBuffer[i] # "LF"
    /\ twFlushAt = <<Len(twInput)>> => twOut = TwLines(twInput, <<>>)

\* all bytes written and then flushed: at least two records, a CR among the
\* bytes, and a partial last line
C23_Witness ==
    /\ twFlushAt = <<Len(twInput)>>
    /\ Len(twOut) >= 2
    /\ \E i \in DOMAIN twInput : twInput[i] = "CR"
    /\ twInput[Len(twInput)] = "a"

\* ===========================================================================
\* WriterTransport / WriterTransportRef (winston_transport/src/
\* transport_adapters.rs): a Transport over a Mutex<W>
\* ===========================================================================

WtMaxCalls == 3       \* log()/log_batch() calls made in one run
WtMaxBatch == 2       \* the longest list handed to log_batch()

WtThreads == {1, 2}

VARIABLES
    wtLock,         \* the Mutex around the writer: the thread holding it, or 0
    wtWriter,       \* the lines the writer has taken: [call, idx]
    wtPc,           \* per thread: "idle" | "lock" | "writing"
    wtCall,         \* per thread: the number of its current call
    wtTodo,         \* per thread: the entries of its call still to be written
    wtCalls         \* number of calls made so far

wtVars == <<wtLock, wtWriter, wtPc, wtCall, wtTodo, wtCalls>>

WtInit ==
    /\ wtLock = 0
    /\ wtWriter = <<>>
    /\ wtPc = [t \in WtThreads |-> "idle"]
    /\ wtCall = [t \in WtThreads |-> 0]
    /\ wtTodo = [t \in WtThreads |-> <<>>]
    /\ wtCalls = 0

WtIdle ==
    /\ wtLock = 0
    /\ wtWriter = <<>>
    /\ wtPc = [t \in WtThreads |-> "none"]
    /\ wtCall = [t \in WtThreads |-> 0]
    /\ wtTodo = [t \in WtThreads |-> <<>>]
    /\ wtCalls = 0

\* Transport::log(info) (n = 1) and Transport::log_batch(infos) up to
\* self.writer.lock(); log_batch returns at once for an empty list
WtCall(t, n) ==
    /\ wtPc[t] = "idle"
    /\ wtCalls < WtMaxCalls
    /\ wtCalls' = wtCalls + 1
    /\ wtCall' = [wtCall EXCEPT ![t] = wtCalls + 1]
    /\ wtTodo' = [wtTodo EXCEPT ![t] = [i \in 1..n |-> i]]
    /\ wtPc' = [wtPc EXCEPT ![t] = IF n = 0 THEN "idle" ELSE "lock"]
    /\ UNCHANGED <<wtLock, wtWriter>>

\* self.writer.lock() returns the guard once no other thread holds it
WtLockAlwaysFree == TRUE

WtLockFree == wtLock = 0

WtAcquire(t) ==
    /\ wtPc[t] = "lock"
    /\ WtLockFree
    /\ wtLock' = t
    /\ wtPc' = [wtPc EXCEPT ![t] = "writing"]
    /\ UNCHANGED <<wtWriter, wtCall, wtTodo, wtCalls>>

\* writeln!(writer, "{}", info) for the next entry: an Err is printed (or
\* dropped, in log) and the loop goes on; the guard is dropped after the last
WtWriteLine(t) ==
    /\ wtPc[t] = "writing"
    /\ \E ok \in BOOLEAN :
         wtWriter' = (IF ok THEN Append(wtWriter, [call |-> wtCall[t], idx |-> Head(wtTodo[t])])
                      ELSE wtWriter)
    /\ wtTodo' = [wtTodo EXCEPT ![t] = Tail(@)]
    /\ IF Len(wtTodo[t]) = 1
       THEN /\ wtLock' = 0
            /\ wtPc' = [wtPc EXCEPT ![t] = "idle"]
       ELSE UNCHANGED <<wtLock, wtPc>>
    /\ UNCHANGED <<wtCall, wtCalls>>

\* --- claims about WriterTransport ---------------------------------------------

\* C24: the lines of one call stand together in the writer, in the order of
\* the batch, with no line of another call between them.
C24_BatchContiguous ==
    \A i, j \in DOMAIN wtWriter :
        (i < j /\ wtWriter[i].call = wtWriter[j].call) =>
            /\ wtWriter[i].idx < wtWriter[j].idx
            /\ \A k \in i..j : wtWriter[k].call = wtWriter[i].call

\* a thread is in the middle of its batch (one line written, one to go) while
\* the other thread has made a call and waits for the lock
C24_Witness ==
    \E t, u \in WtThreads :
        /\ wtPc[t] = "writing"
        /\ Len(wtTodo[t]) = 1
        /\ wtWriter # <<>>
        /\ wtWriter[Len(wtWriter)] = [call |-> wtCall[t], idx |-> 1]
        /\ wtPc[u] = "lock"

\* ===========================================================================
\* Format::chain (logform/src/formats/format.rs): ChainedFormat runs `first`
\* and, if it produced a record, `next` on the result
\* ===========================================================================

ChMaxRec == 1         \* records are 0..ChMaxRec

ChRecs == 0..ChMaxRec

\* Option::None for a record
ChNone == ChMaxRec + 1

\* a format's transform: each record to a record or to None
ChTransforms == [ChRecs -> ChRecs \cup {ChNone}]

VARIABLES
    chFmt,          \* the three formats f, g, h
    chIn,           \* the input record
    chOut           \* the results of the chains on chIn, with the stages invoked

chVars == <<chFmt, chIn, chOut>>

ChNoOut == [val |-> ChNone, calls |-> <<>>]

ChInit ==
    /\ chFmt \in [f : ChTransforms, g : ChTransforms, h : ChTransforms]
    /\ chIn \in ChRecs
    /\ chOut = [done |-> FALSE, fg |-> ChNoOut, left |-> ChNoOut, right |-> ChNoOut]

ChIdle ==
    /\ chFmt = [f |-> <<>>, g |-> <<>>, h |-> <<>>]
    /\ chIn = 0
    /\ chOut = [done |-> FALSE, fg |-> ChNoOut, left |-> ChNoOut, right |-> ChNoOut]

\* a format is a stage [name] or a ChainedFormat [first, next]
ChStage(name) == [chained |-> FALSE, name |-> name]

\* Format::chain
chain(first, next) == [chained |-> TRUE, first |-> first, next |-> next]

\* Option::and_then: whether the closure runs, and on what
ChAndThenRetry(res, input) ==
    [run |-> TRUE, arg |-> IF res.val = ChNone THEN input ELSE res.val]

ChAndThen(res, input) == [run |-> res.val # ChNone, arg |-> res.val]

\* transform: of a stage, its function (the call is noted); of a
\* ChainedFormat, first.transform(input).and_then(|res| next.transform(res))
RECURSIVE transform(_, _, _)
transform(fmt, input, calls) ==
    IF ~fmt.chained
    THEN [val |-> chFmt[fmt.name][input], calls |-> Append(calls, fmt.name)]
    ELSE LET res == transform(fmt.first, input, calls)
             then == ChAndThen(res, input)
         IN  IF then.run THEN transform(fmt.next, then.arg, res.calls) ELSE res

\* the chains are built and applied to the input
ChApply ==
    /\ ~chOut.done
    /\ chOut' =
         [done |-> TRUE,
          fg |-> transform(chain(ChStage("f"), ChStage("g")), chIn, <<>>),
          left |-> transform(chain(chain(ChStage("f"), ChStage("g")), ChStage("h")), chIn, <<>>),
          right |-> transform(chain(ChStage("f"), chain(ChStage("g"), ChStage("h"))), chIn, <<>>)]
    /\ UNCHANGED <<chFmt, chIn>>

\* --- claims about chain --------------------------------------------------------

\* C25: chain(f, g) gives g(f(r)) when f produces and nothing, without
\* invoking g, when it does not; and the two ways of chaining three formats
\* agree (in result and in the stages invoked).
C25_ChainComposes ==
    chOut.done =>
        LET fr == chFmt.f[chIn] IN
        /\ chOut.fg.val = (IF fr = ChNone THEN ChNone ELSE chFmt.g[fr])
        /\ chOut.fg.calls = (IF fr = ChNone THEN <<"f">> ELSE <<"f", "g">>)
        /\ chOut.left = chOut.right

\* f produces a record, g produces nothing from it: h is not invoked
C25_Witness ==
    /\ chOut.done
    /\ chFmt.f[chIn] # ChNone
    /\ chFmt.g[chFmt.f[chIn]] = ChNone
    /\ chOut.left.calls = <<"f", "g">>
    /\ chOut.left.val = ChNone

\* ===========================================================================
\* JsonFormat (logform/src/formats/json.rs): the record as one JSON object in
\* `message`, meta cleared
\* ===========================================================================

JsLevels == {"info", "error"}

JsMessages == {"hello", "bye"}

\* meta keys a caller may use, and the values under them
JsMetaKeys == {"level", "message", "user_id"}

JsValues == {"error", "x"}

\* serde_json's Map keeps its keys sorted
JsKeyOrder == <<"level", "message", "user_id">>

JsMetas == UNION {[keys -> JsValues] : keys \in SUBSET JsMetaKeys}

JsRecords == [level : JsLevels, message : JsMessages, meta : JsMetas]

VARIABLES
    jsIn,           \* the LogInfo given to transform
    jsOut           \* the LogInfo returned, if transform has run

jsVars == <<jsIn, jsOut>>

JsInit ==
    /\ jsIn \in JsRecords
    /\ jsOut = [done |-> FALSE, level |-> "", message |-> <<>>, meta |-> <<>>]

JsIdle ==
    /\ jsIn = [level |-> "", message |-> "", meta |-> <<>>]
    /\ jsOut = [done |-> FALSE, level |-> "", message |-> <<>>, meta |-> <<>>]

\* Map::insert: the value under the key, replacing one already there
JsMapInsert(map, key, value) ==
    [k \in DOMAIN map \cup {key} |-> IF k = key THEN value ELSE map[k]]

\* the loop over info.meta: every pair is inserted
JsInsertAll(map, meta) ==
    [k \in DOMAIN map \cup DOMAIN meta |-> IF k \in DOMAIN meta THEN meta[k] ELSE map[k]]

\* Value::Object(map).to_string(): the members in key order
RECURSIVE JsToString(_, _)
JsToString(map, i) ==
    IF i > Len(JsKeyOrder) THEN <<>>
    ELSE (IF JsKeyOrder[i] \in DOMAIN map
          THEN <<[key |-> JsKeyOrder[i], value |-> map[JsKeyOrder[i]]]>>
          ELSE <<>>) \o JsToString(map, i + 1)

\* serde_json::from_str: the members inserted into a map in text order
RECURSIVE JsFromStr(_, _)
JsFromStr(text, map) ==
    IF text = <<>> THEN map
    ELSE JsFromStr(Tail(text), JsMapInsert(map, Head(text).key, Head(text).value))

\* JsonFormat::transform
JsTransform ==
    /\ ~jsOut.done
    /\ LET log_object ==
               JsInsertAll(JsMapInsert(JsMapInsert(<<>>, "level", jsIn.level),
                                       "message", jsIn.message),
                           jsIn.meta)
       IN  jsOut' = [done |-> TRUE, level |-> jsIn.level,
                     message |-> JsToString(log_object, 1), meta |-> <<>>]
    /\ UNCHANGED jsIn

\* --- claims about JsonFormat ---------------------------------------------------

\* C26: whatever keys meta holds, the message parses to an object with the
\* record's level and message under "level" and "message" and every other
\* meta key under its own name, and the returned meta is empty.
C26_JsonKeepsLevelAndMessage ==
    jsOut.done =>
        LET parsed == JsFromStr(jsOut.message, <<>>) IN
        /\ DOMAIN parsed = {"level", "message"} \cup DOMAIN jsIn.meta
        /\ parsed["level"] = jsIn.level
        /\ parsed["message"] = jsIn.message
        /\ \A k \in DOMAIN jsIn.meta \ {"level", "message"} : parsed[k] = jsIn.meta[k]
        /\ jsOut.meta = <<>>

\* ===========================================================================
\* Padder, the PadLevels format (logform/src/formats/pad_levels.rs): a padding
\* per configured level, prepended to the message
\* ===========================================================================

PlMaxLevelLen == 2    \* characters in a configured level
PlMaxFillerLen == 2   \* characters in a filler
PlMaxLevels == 2      \* levels given to with_levels

\* a string is its sequence of characters; "e2" is a character of two bytes
PlChars == {"a", "e2"}

PlStrings(max) == UNION {[1..n -> PlChars] : n \in 0..max}

PlLevelNames == PlStrings(PlMaxLevelLen) \ {<<>>}

PlLevelSets == {s \in SUBSET PlLevelNames : Cardinality(s) <= PlMaxLevels}

PlFillers == PlStrings(PlMaxFillerLen)

\* config::rust::levels(): error, warn, info, debug, trace
PlRustLevels ==
    {<<"e", "r", "r", "o", "r">>, <<"w", "a", "r", "n">>, <<"i", "n", "f", "o">>,
     <<"d", "e", "b", "u", "g">>, <<"t", "r", "a", "c", "e">>}

\* str::len(): the bytes of the string
RECURSIVE PlLen(_)
PlLen(s) ==
    IF s = <<>> THEN 0 ELSE (IF Head(s) = "e2" THEN 2 ELSE 1) + PlLen(Tail(s))

\* str::repeat
RECURSIVE PlRepeat(_, _)
PlRepeat(s, n) == IF n = 0 THEN <<>> ELSE s \o PlRepeat(s, n - 1)

\* .chars().take(n).collect()
PlTakeChars(s, n) == IF Len(s) <= n THEN s ELSE SubSeq(s, 1, n)

RECURSIVE PlMax(_)
PlMax(set) ==
    IF set = {} THEN 0
    ELSE LET x == CHOOSE y \in set : TRUE
             rest == PlMax(set \ {x})
         IN  IF x > rest THEN x ELSE rest

\* Padder::get_longest_level
get_longest_level(levels) == PlMax({PlLen(level) : level \in levels})

\* Padder::padding_for_level
padding_for_level(level, filler, max_length) ==
    LET target_len == max_length + 1 - PlLen(level)
    IN  PlTakeChars(PlRepeat(filler, target_len), target_len)

\* Padder::padding_for_levels
padding_for_levels(levels, filler) ==
    [level \in levels |-> padding_for_level(level, filler, get_longest_level(levels))]

VARIABLES
    plLevels,       \* Padder.levels
    plFiller,       \* Padder.filler
    plPaddings,     \* Padder.paddings
    plBuilt,        \* builder calls made on the Padder
    plOut           \* the last record transform returned

plVars == <<plLevels, plFiller, plPaddings, plBuilt, plOut>>

PlNoOut == [done |-> FALSE, level |-> <<>>, message |-> <<>>]

\* Padder::new
PlInit ==
    /\ plLevels = PlRustLevels
    /\ plFiller = <<" ">>
    /\ plPaddings = padding_for_levels(PlRustLevels, <<" ">>)
    /\ plBuilt = {}
    /\ plOut = PlNoOut

PlIdle ==
    /\ plLevels = {}
    /\ plFiller = <<>>
    /\ plPaddings = <<>>
    /\ plBuilt = {}
    /\ plOut = PlNoOut

\* Padder::with_levels
PlWithLevels(levels) ==
    /\ "levels" \notin plBuilt
    /\ plOut = PlNoOut
    /\ plLevels' = levels
    /\ plPaddings' = padding_for_levels(levels, plFiller)
    /\ plBuilt' = plBuilt \cup {"levels"}
    /\ UNCHANGED <<plFiller, plOut>>

\* Padder::with_filler
PlWithFiller(filler) ==
    /\ "filler" \notin plBuilt
    /\ plOut = PlNoOut
    /\ plFiller' = filler
    /\ plPaddings' = padding_for_levels(plLevels, filler)
    /\ plBuilt' = plBuilt \cup {"filler"}
    /\ UNCHANGED <<plLevels, plOut>>

\* Padder::transform of a record with the given level and message "m"
PlTransform(level) ==
    /\ plOut' = [done |-> TRUE, level |-> level,
                 message |-> IF level \in DOMAIN plPaddings
                             THEN plPaddings[level] \o <<"m">>
                             ELSE <<"m">>]
    /\ UNCHANGED <<plLevels, plFiller, plPaddings, plBuilt>>

\* --- claims about PadLevels ----------------------------------------------------

\* C27: for every level set and every filler, the padding of each level of the
\* set and the level together are max_len + 1 long, max_len being the length
\* of the longest level of the set.
C27_PaddingFillsToMax ==
    \A level \in plLevels :
        PlLen(plPaddings[level]) + PlLen(level) = get_longest_level(plLevels) + 1

\* ===========================================================================
\* MsFormat (logform/src/formats/ms.rs): the time since the previous call,
\* under a Mutex around the previous instant
\* ===========================================================================

MsMaxTime == 2        \* the monotonic clock runs 0..MsMaxTime
MsMaxCalls == 3       \* transform calls

MsThreads == {1, 2}

VARIABLES
    msNow,          \* the monotonic clock
    msPrev,         \* prev_time: Option<Instant>
    msLock,         \* holder of the prev_time Mutex, 0 when free
    msPc,           \* per thread: "idle", "lock" (curr taken), "held" (guard taken)
    msCurr,         \* per thread: curr
    msDelta,        \* per thread: the last diff emitted, in clock units
    msCalls         \* transform calls started

msVars == <<msNow, msPrev, msLock, msPc, msCurr, msDelta, msCalls>>

\* MsFormat::new
MsInit ==
    /\ msNow = 0
    /\ msPrev = [some |-> FALSE, at |-> 0]
    /\ msLock = 0
    /\ msPc = [t \in MsThreads |-> "idle"]
    /\ msCurr = [t \in MsThreads |-> 0]
    /\ msDelta = [t \in MsThreads |-> 0]
    /\ msCalls = 0

MsIdle ==
    /\ msNow = 0
    /\ msPrev = [some |-> FALSE, at |-> 0]
    /\ msLock = 0
    /\ msPc = <<>>
    /\ msCurr = <<>>
    /\ msDelta = <<>>
    /\ msCalls = 0

\* time passes
MsTick ==
    /\ msNow < MsMaxTime
    /\ msNow' = msNow + 1
    /\ UNCHANGED <<msPrev, msLock, msPc, msCurr, msDelta, msCalls>>

\* transform: let curr = Instant::now()
MsTakeNow(t) ==
    /\ msPc[t] = "idle"
    /\ msCalls < MsMaxCalls
    /\ msCalls' = msCalls + 1
    /\ msCurr' = [msCurr EXCEPT ![t] = msNow]
    /\ msPc' = [msPc EXCEPT ![t] = "lock"]
    /\ UNCHANGED <<msNow, msPrev, msLock, msDelta>>

\* transform: self.prev_time.lock()
MsAcquire(t) ==
    /\ msPc[t] = "lock"
    /\ msLock = 0
    /\ msLock' = t
    /\ msPc' = [msPc EXCEPT ![t] = "held"]
    /\ UNCHANGED <<msNow, msPrev, msCurr, msDelta, msCalls>>

\* Instant::duration_since: zero when `earlier` is later than self
duration_since(curr, prev) == IF curr >= prev THEN curr - prev ELSE 0

\* transform under the guard: diff from *prev_time, *prev_time = Some(curr),
\* the "ms" entry; the guard is dropped on return
MsUpdate(t) ==
    /\ msPc[t] = "held"
    /\ msDelta' = [msDelta EXCEPT ![t] =
                      IF msPrev.some THEN duration_since(msCurr[t], msPrev.at) ELSE 0]
    /\ msPrev' = [some |-> TRUE, at |-> msCurr[t]]
    /\ msLock' = 0
    /\ msPc' = [msPc EXCEPT ![t] = "idle"]
    /\ UNCHANGED <<msNow, msCurr, msCalls>>

\* --- claims about MsFormat -----------------------------------------------------

\* C28: the previous instant is read and replaced under the lock by one call
\* at a time, the stored previous instant never moves backwards, and each
\* delta is the time from the instant of the call before it in lock order to
\* the call's own instant (0 for the first call).
C28_PrevNeverMovesBack ==
    [][/\ Cardinality({t \in MsThreads : msPc[t] = "held"}) <= 1
       /\ \A t \in MsThreads :
            (msPc[t] = "held" /\ msPc'[t] = "idle") =>
                /\ msPrev.some => msPrev'.at >= msPrev.at
                /\ msDelta'[t] = (IF msPrev.some THEN msPrev'.at - msPrev.at ELSE 0)
                /\ msDelta'[t] >= 0]_msVars

\* ===========================================================================
\* FileTransport's locks (winston_file/src/lib.rs): proxy_lock around a whole
\* proxy() call, the `file` Mutex around single writes, flushes and swaps;
\* two sinks, each a possible source and target of a drain
\* ===========================================================================

PxMaxCalls == 3       \* proxy() and log() calls made in one run

PxSinks == {1, 2}

PxThreads == {1, 2}

VARIABLES
    pxProxyLock,    \* per sink: the thread holding proxy_lock, 0 when free
    pxFileLock,     \* per sink: the thread holding the `file` Mutex, 0 when free
    pxFile,         \* per sink: the records in the file that `file` writes to
    pxPc,           \* per thread: where its call is
    pxSrc,          \* per thread: the sink its call is made on
    pxDst,          \* per thread: the target of its proxy() call
    pxTodo,         \* per thread: the lines of the backup not yet read
    pxRes,          \* per thread: what its last proxy() returned
    pxCalls,        \* calls made so far
    pxNext          \* records logged so far

pxVars == <<pxProxyLock, pxFileLock, pxFile, pxPc, pxSrc, pxDst, pxTodo, pxRes, pxCalls, pxNext>>

\* two sinks with one record each (records 1 and 2), no call in progress
PxInit ==
    /\ pxProxyLock = [s \in PxSinks |-> 0]
    /\ pxFileLock = [s \in PxSinks |-> 0]
    /\ pxFile = [s \in PxSinks |-> <<s>>]
    /\ pxPc = [t \in PxThreads |-> "idle"]
    /\ pxSrc = [t \in PxThreads |-> 1]
    /\ pxDst = [t \in PxThreads |-> 1]
    /\ pxTodo = [t \in PxThreads |-> <<>>]
    /\ pxRes = [t \in PxThreads |-> "none"]
    /\ pxCalls = 0
    /\ pxNext = Cardinality(PxSinks)

PxIdle ==
    /\ pxProxyLock = <<>>
    /\ pxFileLock = <<>>
    /\ pxFile = <<>>
    /\ pxPc = <<>>
    /\ pxSrc = <<>>
    /\ pxDst = <<>>
    /\ pxTodo = <<>>
    /\ pxRes = <<>>
    /\ pxCalls = 0
    /\ pxNext = 0

\* the steps of proxy() made with proxy_lock held
PxDrainSteps == {"lockFlush", "flush", "rename", "lockSwap", "swap", "read",
                 "lockIngest", "ingest"}

\* Transport::log is called on a sink
PxLogCall(t, s) ==
    /\ pxPc[t] = "idle"
    /\ pxCalls < PxMaxCalls
    /\ pxCalls' = pxCalls + 1
    /\ pxSrc' = [pxSrc EXCEPT ![t] = s]
    /\ pxPc' = [pxPc EXCEPT ![t] = "lockLog"]
    /\ UNCHANGED <<pxProxyLock, pxFileLock, pxFile, pxDst, pxTodo, pxRes, pxNext>>

\* log: self.file.lock()
PxLogLock(t) ==
    /\ pxPc[t] = "lockLog"
    /\ pxFileLock[pxSrc[t]] = 0
    /\ pxFileLock' = [pxFileLock EXCEPT ![pxSrc[t]] = t]
    /\ pxPc' = [pxPc EXCEPT ![t] = "log"]
    /\ UNCHANGED <<pxProxyLock, pxFile, pxSrc, pxDst, pxTodo, pxRes, pxCalls, pxNext>>

\* log: writeln!, the guard dropped on return
PxLogWrite(t) ==
    /\ pxPc[t] = "log"
    /\ pxNext' = pxNext + 1
    /\ pxFile' = [pxFile EXCEPT ![pxSrc[t]] = Append(@, pxNext + 1)]
    /\ pxFileLock' = [pxFileLock EXCEPT ![pxSrc[t]] = 0]
    /\ pxPc' = [pxPc EXCEPT ![t] = "idle"]
    /\ UNCHANGED <<pxProxyLock, pxSrc, pxDst, pxTodo, pxRes, pxCalls>>

\* Proxy::proxy is called on src with target dst
PxProxyCall(t, src, dst) ==
    /\ pxPc[t] = "idle"
    /\ pxCalls < PxMaxCalls
    /\ pxCalls' = pxCalls + 1
    /\ pxSrc' = [pxSrc EXCEPT ![t] = src]
    /\ pxDst' = [pxDst EXCEPT ![t] = dst]
    /\ pxRes' = [pxRes EXCEPT ![t] = "none"]
    /\ pxPc' = [pxPc EXCEPT ![t] = "lockProxy"]
    /\ UNCHANGED <<pxProxyLock, pxFileLock, pxFile, pxTodo, pxNext>>

\* self.proxy_lock.lock()
PxProxyLockAlwaysFree(s) == TRUE

PxProxyLockFree(s) == pxProxyLock[s] = 0

\* proxy: let _lock = self.proxy_lock.lock(); the backup path is chosen
PxLockProxy(t) ==
    /\ pxPc[t] = "lockProxy"
    /\ PxProxyLockFree(pxSrc[t])
    /\ pxProxyLock' = [pxProxyLock EXCEPT ![pxSrc[t]] = t]
    /\ pxPc' = [pxPc EXCEPT ![t] = "lockFlush"]
    /\ UNCHANGED <<pxFileLock, pxFile, pxSrc, pxDst, pxTodo, pxRes, pxCalls, pxNext>>

\* a step of proxy or ingest returns Err with `?`: the guards held are dropped
PxReturn(t, res) ==
    /\ pxRes' = [pxRes EXCEPT ![t] = res]
    /\ pxPc' = [pxPc EXCEPT ![t] = "idle"]
    /\ pxProxyLock' = [s \in PxSinks |-> IF pxProxyLock[s] = t THEN 0 ELSE pxProxyLock[s]]
    /\ pxFileLock' = [s \in PxSinks |-> IF pxFileLock[s] = t THEN 0 ELSE pxFileLock[s]]

\* proxy: self.file.lock() of the flush block and of the swap block
PxLockFile(t) ==
    /\ pxPc[t] \in {"lockFlush", "lockSwap"}
    /\ pxFileLock[pxSrc[t]] = 0
    /\ pxFileLock' = [pxFileLock EXCEPT ![pxSrc[t]] = t]
    /\ pxPc' = [pxPc EXCEPT ![t] = IF pxPc[t] = "lockFlush" THEN "flush" ELSE "swap"]
    /\ UNCHANGED <<pxProxyLock, pxFile, pxSrc, pxDst, pxTodo, pxRes, pxCalls, pxNext>>

\* proxy: file_guard.flush(), the guard dropped at the end of the block
PxFlush(t) ==
    /\ pxPc[t] = "flush"
    /\ \/ /\ pxFileLock' = [pxFileLock EXCEPT ![pxSrc[t]] = 0]
          /\ pxPc' = [pxPc EXCEPT ![t] = "rename"]
          /\ UNCHANGED <<pxProxyLock, pxRes>>
       \/ PxReturn(t, "err")
    /\ UNCHANGED <<pxFile, pxSrc, pxDst, pxTodo, pxCalls, pxNext>>

\* proxy: fs::rename and File::create, with no lock on `file`
PxRename(t) ==
    /\ pxPc[t] = "rename"
    /\ \/ /\ pxPc' = [pxPc EXCEPT ![t] = "lockSwap"]
          /\ UNCHANGED <<pxProxyLock, pxFileLock, pxRes>>
       \/ PxReturn(t, "err")
    /\ UNCHANGED <<pxFile, pxSrc, pxDst, pxTodo, pxCalls, pxNext>>

\* proxy: *file_guard = BufWriter::new(new_log_file), the guard dropped; the
\* backup, which holds what was written so far, is opened for reading
PxSwap(t) ==
    /\ pxPc[t] = "swap"
    /\ pxTodo' = [pxTodo EXCEPT ![t] = pxFile[pxSrc[t]]]
    /\ pxFile' = [pxFile EXCEPT ![pxSrc[t]] = <<>>]
    /\ pxFileLock' = [pxFileLock EXCEPT ![pxSrc[t]] = 0]
    /\ pxPc' = [pxPc EXCEPT ![t] = "read"]
    /\ UNCHANGED <<pxProxyLock, pxSrc, pxDst, pxRes, pxCalls, pxNext>>

\* proxy: reader.read_line; at the end of the backup remove_file and Ok
PxReadLine(t) ==
    /\ pxPc[t] = "read"
    /\ IF pxTodo[t] = <<>>
       THEN PxReturn(t, "ok")
       ELSE /\ pxPc' = [pxPc EXCEPT ![t] = "lockIngest"]
            /\ UNCHANGED <<pxProxyLock, pxFileLock, pxRes>>
    /\ UNCHANGED <<pxFile, pxSrc, pxDst, pxTodo, pxCalls, pxNext>>

\* ingest: self.file.lock() of the target
PxIngestNeedsProxy(s) == pxFileLock[s] = 0 /\ pxProxyLock[s] = 0

PxIngestFree(s) == pxFileLock[s] = 0

PxIngestLock(t) ==
    /\ pxPc[t] = "lockIngest"
    /\ PxIngestFree(pxDst[t])
    /\ pxFileLock' = [pxFileLock EXCEPT ![pxDst[t]] = t]
    /\ pxPc' = [pxPc EXCEPT ![t] = "ingest"]
    /\ UNCHANGED <<pxProxyLock, pxFile, pxSrc, pxDst, pxTodo, pxRes, pxCalls, pxNext>>

\* ingest: the record is written and flushed and the guard dropped, or a
\* write fails and proxy returns the Err
PxIngest(t) ==
    /\ pxPc[t] = "ingest"
    /\ \/ /\ pxFile' = [pxFile EXCEPT ![pxDst[t]] = Append(@, Head(pxTodo[t]))]
          /\ pxTodo' = [pxTodo EXCEPT ![t] = Tail(@)]
          /\ pxFileLock' = [pxFileLock EXCEPT ![pxDst[t]] = 0]
          /\ pxPc' = [pxPc EXCEPT ![t] = "read"]
          /\ UNCHANGED <<pxProxyLock, pxRes>>
       \/ /\ PxReturn(t, "err")
          /\ UNCHANGED <<pxFile, pxTodo>>
    /\ UNCHANGED <<pxSrc, pxDst, pxCalls, pxNext>>

\* a step of the call thread t has in progress
PxStep(t) ==
    \/ PxLogLock(t) \/ PxLogWrite(t) \/ PxLockProxy(t) \/ PxLockFile(t) \/ PxFlush(t)
    \/ PxRename(t) \/ PxSwap(t) \/ PxReadLine(t) \/ PxIngestLock(t) \/ PxIngest(t)

\* --- claims about the locks ----------------------------------------------------

\* C31: two proxy() calls on one sink never have their drain steps
\* interleaved (one holds proxy_lock from its first step to its return), and
\* a drain does not hold the sink's write-handle lock between its steps, so a
\* log() on the sink completes while the drain is still going.
C31_DrainsSerializedWritesNot ==
    /\ \A t, u \in PxThreads :
          (t # u /\ pxPc[t] \in PxDrainSteps /\ pxPc[u] \in PxDrainSteps)
              => pxSrc[t] # pxSrc[u]
    /\ \A t \in PxThreads :
          pxPc[t] \in PxDrainSteps =>
              /\ pxProxyLock[pxSrc[t]] = t
              /\ pxPc[t] \in {"lockFlush", "rename", "lockSwap", "read", "lockIngest"}
                    => \A s \in PxSinks : pxFileLock[s] # t

\* thread 1 is in the middle of draining sink 1 into sink 2, and sink 1
\* already holds a record logged after the swap
C31_Witness ==
    /\ pxPc[1] = "read"
    /\ pxSrc[1] = 1
    /\ pxDst[1] = 2
    /\ pxTodo[1] # <<>>
    /\ pxPc[2] = "idle"
    /\ pxFile[1] # <<>>
    /\ \A i \in DOMAIN pxFile[1] : pxFile[1][i] > Cardinality(PxSinks)

\* C38: cross-drains (1 into 2 while 2 into 1) and a drain of a sink into
\* itself always return.
C38_DrainsReturn ==
    \A t \in PxThreads : (pxPc[t] # "idle") ~> (pxPc[t] = "idle")

\* both cross-drains are in their loops at once: thread 1 waits for sink 2's
\* write-handle lock while thread 2 holds it to flush, each holding the
\* proxy_lock of its own source
C38_Witness ==
    /\ pxSrc[1] = 1 /\ pxDst[1] = 2 /\ pxPc[1] = "lockIngest"
    /\ pxSrc[2] = 2 /\ pxDst[2] = 1 /\ pxPc[2] \in {"flush", "swap"}

\* ===========================================================================
\* The MongoDB filter compiler (winston_mongodb/src/to_mongodb_filter.rs) on
\* FieldQuery(path, FieldLogic(operator, conditions))
\* ===========================================================================

MfMaxConds == 2       \* conditions in a FieldLogic
MfMaxValue == 1       \* comparison values and field values are 0..MfMaxValue

MfValues == 0..MfMaxValue

\* the field's value in a stored document, or the field is missing
MfMissing == MfMaxValue + 1

MfComparators ==
    {"Equals", "NotEquals", "GreaterThan", "LessThan", "GreaterThanOrEqual",
     "LessThanOrEqual", "Exists", "NotExists"}

MfComparisons == [comparator : MfComparators, value : MfValues]

MfConditions == UNION {[1..n -> MfComparisons] : n \in 0..MfMaxConds}

VARIABLES
    mfLogic,        \* the FieldLogic: [operator, conditions]
    mfDoc,          \* the value of the field in a stored document
    mfFilter        \* the compiled filter, once to_mongodb_filter has run

mfVars == <<mfLogic, mfDoc, mfFilter>>

MfInit ==
    /\ mfLogic \in [operator : {"And", "Or"}, conditions : MfConditions]
    /\ mfDoc \in MfValues \cup {MfMissing}
    /\ mfFilter = [done |-> FALSE]

MfIdle ==
    /\ mfLogic = [operator |-> "And", conditions |-> <<>>]
    /\ mfDoc = 0
    /\ mfFilter = [done |-> FALSE]

\* FieldComparison::to_mongodb_filter: a document of one operator
MfComparisonDoc(comp) ==
    CASE comp.comparator = "Equals" -> <<[key |-> "$eq", value |-> comp.value]>>
      [] comp.comparator = "NotEquals" -> <<[key |-> "$ne", value |-> comp.value]>>
      [] comp.comparator = "GreaterThan" -> <<[key |-> "$gt", value |-> comp.value]>>
      [] comp.comparator = "LessThan" -> <<[key |-> "$lt", value |-> comp.value]>>
      [] comp.comparator = "GreaterThanOrEqual" -> <<[key |-> "$gte", value |-> comp.value]>>
      [] comp.comparator = "LessThanOrEqual" -> <<[key |-> "$lte", value |-> comp.value]>>
      [] comp.comparator = "Exists" -> <<[key |-> "$exists", value |-> 1]>>
      [] comp.comparator = "NotExists" -> <<[key |-> "$exists", value |-> 0]>>

\* Document::insert: the value replaces the one under an existing key, in
\* its place; a new key goes to the end
MfDocInsert(d, entry) ==
    IF \E i \in DOMAIN d : d[i].key = entry.key
    THEN [i \in DOMAIN d |-> IF d[i].key = entry.key THEN entry ELSE d[i]]
    ELSE Append(d, entry)

\* merged_doc replaced by each condition's document instead of extended
MfMergeLast(merged, conditions) ==
    IF conditions = <<>> THEN merged
    ELSE MfComparisonDoc(conditions[Len(conditions)])

\* FieldLogic::to_mongodb_filter: every entry of every condition's document
\* is inserted into merged_doc
RECURSIVE MfMerge(_, _)
MfMerge(merged, conditions) ==
    IF conditions = <<>> THEN merged
    ELSE MfMerge(MfDocInsert(merged, MfComparisonDoc(Head(conditions))[1]),
                 Tail(conditions))

\* FieldQueryNode::to_mongodb_filter on FieldNode::Logic
MfCompile ==
    /\ ~mfFilter.done
    /\ mfFilter' =
         IF mfLogic.operator = "And"
         THEN [done |-> TRUE, or |-> FALSE,
               docs |-> <<MfMerge(<<>>, mfLogic.conditions)>>]
         ELSE [done |-> TRUE, or |-> TRUE,
               docs |-> [i \in DOMAIN mfLogic.conditions |->
                            MfComparisonDoc(mfLogic.conditions[i])]]
    /\ UNCHANGED <<mfLogic, mfDoc>>

\* whether a field value satisfies a comparison
MfHolds(comp, v) ==
    CASE comp.comparator = "Equals" -> v # MfMissing /\ v = comp.value
      [] comp.comparator = "NotEquals" -> v = MfMissing \/ v # comp.value
      [] comp.comparator = "GreaterThan" -> v # MfMissing /\ v > comp.value
      [] comp.comparator = "LessThan" -> v # MfMissing /\ v < comp.value
      [] comp.comparator = "GreaterThanOrEqual" -> v # MfMissing /\ v >= comp.value
      [] comp.comparator = "LessThanOrEqual" -> v # MfMissing /\ v <= comp.value
      [] comp.comparator = "Exists" -> v # MfMissing
      [] comp.comparator = "NotExists" -> v = MfMissing

\* whether the backend matches a field value against one operator entry
MfOperatorMatches(entry, v) ==
    CASE entry.key = "$eq" -> v # MfMissing /\ v = entry.value
      [] entry.key = "$ne" -> v = MfMissing \/ v # entry.value
      [] entry.key = "$gt" -> v # MfMissing /\ v > entry.value
      [] entry.key = "$lt" -> v # MfMissing /\ v < entry.value
      [] entry.key = "$gte" -> v # MfMissing /\ v >= entry.value
      [] entry.key = "$lte" -> v # MfMissing /\ v <= entry.value
      [] entry.key = "$exists" -> (entry.value = 1) <=> (v # MfMissing)

\* {field: d}: every operator of d matches
MfDocMatches(d, v) == \A i \in DOMAIN d : MfOperatorMatches(d[i], v)

\* the compiled filter matches: {field: d}, or {$or: [{field: d}, ...]}
MfFilterMatches(v) ==
    IF mfFilter.or
    THEN \E i \in DOMAIN mfFilter.docs : MfDocMatches(mfFilter.docs[i], v)
    ELSE MfDocMatches(mfFilter.docs[1], v)

\* no two conditions compile to the same operator key
MfNoCollision ==
    \A i, j \in DOMAIN mfLogic.conditions :
        i # j => MfComparisonDoc(mfLogic.conditions[i])[1].key
                    # MfComparisonDoc(mfLogic.conditions[j])[1].key

\* --- claims about the filter compiler ------------------------------------------

vars == <<btVars, ttVars, ftVars, drfVars, fqVars, mgVars, htVars, twVars, wtVars, chVars, jsVars, plVars, msVars, pxVars, mfVars>>

\* Each specification runs one transport; the others are not constructed.
BtOthers == UNCHANGED <<ttVars, ftVars, drfVars, mgVars, fqVars, htVars, twVars, wtVars, chVars, jsVars, plVars, msVars, pxVars, mfVars>>

TtOthers == UNCHANGED <<btVars, ftVars, drfVars, mgVars, fqVars, htVars, twVars, wtVars, chVars, jsVars, plVars, msVars, pxVars, mfVars>>

FtOthers == UNCHANGED <<btVars, ttVars, drfVars, mgVars, fqVars, htVars, twVars, wtVars, chVars, jsVars, plVars, msVars, pxVars, mfVars>>

DrfOthers == UNCHANGED <<btVars, ttVars, ftVars, mgVars, fqVars, htVars, twVars, wtVars, chVars, jsVars, plVars, msVars, pxVars, mfVars>>

MgOthers == UNCHANGED <<btVars, ttVars, ftVars, drfVars, fqVars, htVars, twVars, wtVars, chVars, jsVars, plVars, msVars, pxVars, mfVars>>

FqOthers == UNCHANGED <<btVars, ttVars, ftVars, drfVars, mgVars, htVars, twVars, wtVars, chVars, jsVars, plVars, msVars, pxVars, mfVars>>

HtOthers == UNCHANGED <<btVars, ttVars, ftVars, drfVars, fqVars, mgVars, twVars, wtVars, chVars, jsVars, plVars, msVars, pxVars, mfVars>>

TwOthers == UNCHANGED <<btVars, ttVars, ftVars, drfVars, fqVars, mgVars, htVars, wtVars, chVars, jsVars, plVars, msVars, pxVars, mfVars>>

WtOthers == UNCHANGED <<btVars, ttVars, ftVars, drfVars, fqVars, mgVars, htVars, twVars, chVars, jsVars, plVars, msVars, pxVars, mfVars>>

ChOthers == UNCHANGED <<btVars, ttVars, ftVars, drfVars, fqVars, mgVars, htVars, twVars, wtVars, jsVars, plVars, msVars, pxVars, mfVars>>

JsOthers == UNCHANGED <<btVars, ttVars, ftVars, drfVars, fqVars, mgVars, htVars, twVars, wtVars, chVars, plVars, msVars, pxVars, mfVars>>

PlOthers == UNCHANGED <<btVars, ttVars, ftVars, drfVars, fqVars, mgVars, htVars, twVars, wtVars, chVars, jsVars, msVars, pxVars, mfVars>>

MsOthers == UNCHANGED <<btVars, ttVars, ftVars, drfVars, fqVars, mgVars, htVars, twVars, wtVars, chVars, jsVars, plVars, pxVars, mfVars>>

PxOthers == UNCHANGED <<btVars, ttVars, ftVars, drfVars, fqVars, mgVars, htVars, twVars, wtVars, chVars, jsVars, plVars, msVars, mfVars>>

MfOthers == UNCHANGED <<btVars, ttVars, ftVars, drfVars, fqVars, mgVars, htVars, twVars, wtVars, chVars, jsVars, plVars, msVars, pxVars>>

InitBatch == BtInit /\ TtIdle /\ FtIdle /\ DrfIdle /\ MgIdle /\ FqIdle /\ HtIdle /\ TwIdle /\ WtIdle /\ ChIdle /\ JsIdle /\ PlIdle /\ MsIdle /\ PxIdle /\ MfIdle

InitBatchTimed == BtInitTimed /\ TtIdle /\ FtIdle /\ DrfIdle /\ MgIdle /\ FqIdle /\ HtIdle /\ TwIdle /\ WtIdle /\ ChIdle /\ JsIdle /\ PlIdle /\ MsIdle /\ PxIdle /\ MfIdle

NextBatch ==
    \/ BtRecvLog /\ BtOthers
    \/ BtRecvFlush /\ BtOthers
    \/ BtRecvQuery /\ BtOthers
    \/ BtRecvShutdown /\ BtOthers
    \/ BtTimeout /\ BtOthers
    \/ BtDisconnected /\ BtOthers
    \/ BtTick /\ BtOthers
    \/ \E h \in BtHandles : BtLog(h) /\ BtOthers
    \/ \E h \in BtHandles : BtFlushCall(h) /\ BtOthers
    \/ \E h \in BtHandles : BtQueryCall(h) /\ BtOthers
    \/ \E h \in BtHandles : BtCallReturn(h) /\ BtOthers
    \/ \E h, c \in BtHandles : BtClone(h, c) /\ BtOthers
    \/ \E h \in BtHandles : BtDrop(h) /\ BtOthers
    \/ BtShutdown /\ BtOthers
    \/ BtJoined /\ BtOthers

NextBatchTimed ==
    \/ BtRecvLog /\ BtOthers
    \/ BtRecvFlush /\ BtOthers
    \/ BtRecvQuery /\ BtOthers
    \/ BtRecvShutdown /\ BtOthers
    \/ BtTimeout /\ BtOthers
    \/ BtDisconnected /\ BtOthers
    \/ BtTickTimed /\ BtOthers
    \/ \E h \in BtHandles : BtLog(h) /\ BtOthers
    \/ \E h \in BtHandles : BtFlushCall(h) /\ BtOthers
    \/ \E h \in BtHandles : BtQueryCall(h) /\ BtOthers
    \/ \E h \in BtHandles : BtCallReturn(h) /\ BtOthers
    \/ \E h, c \in BtHandles : BtClone(h, c) /\ BtOthers
    \/ \E h \in BtHandles : BtDrop(h) /\ BtOthers
    \/ BtShutdown /\ BtOthers
    \/ BtJoined /\ BtOthers

InitThreaded == TtInit /\ BtIdle /\ FtIdle /\ DrfIdle /\ MgIdle /\ FqIdle /\ HtIdle /\ TwIdle /\ WtIdle /\ ChIdle /\ JsIdle /\ PlIdle /\ MsIdle /\ PxIdle /\ MfIdle

NextThreaded ==
    \/ TtRecvLog /\ TtOthers
    \/ TtRecvFlush /\ TtOthers
    \/ TtRecvQuery /\ TtOthers
    \/ TtRecvShutdown /\ TtOthers
    \/ \E c \in TtCallers : TtLog(c) /\ TtOthers
    \/ \E c \in TtCallers : TtFlushCall(c) /\ TtOthers
    \/ \E c \in TtCallers : TtQueryCall(c) /\ TtOthers
    \/ \E c \in TtCallers : TtCallReturn(c) /\ TtOthers
    \/ TtShutdown /\ TtOthers
    \/ TtDrop /\ TtOthers
    \/ TtJoined /\ TtOthers

InitFile == FtInit /\ BtIdle /\ TtIdle /\ DrfIdle /\ MgIdle /\ FqIdle /\ HtIdle /\ TwIdle /\ WtIdle /\ ChIdle /\ JsIdle /\ PlIdle /\ MsIdle /\ PxIdle /\ MfIdle

NextFile ==
    \/ \E json \in BOOLEAN : FtLog(json) /\ FtOthers
    \/ FtFlush /\ FtOthers
    \/ FtProxyBegin /\ FtOthers
    \/ FtProxyFlush /\ FtOthers
    \/ FtProxyRename /\ FtOthers
    \/ FtProxyCreate /\ FtOthers
    \/ FtProxySwap /\ FtOthers
    \/ FtProxyLine /\ FtOthers
    \/ FtProxyEnd /\ FtOthers

InitRotate == DrfInit /\ BtIdle /\ TtIdle /\ FtIdle /\ MgIdle /\ FqIdle /\ HtIdle /\ TwIdle /\ WtIdle /\ ChIdle /\ JsIdle /\ PlIdle /\ MsIdle /\ PxIdle /\ MfIdle

NextRotate ==
    \/ \E t \in DrfAllThreads : DrfShouldRotate(t) /\ DrfOthers
    \/ \E t \in DrfAllThreads : DrfWrite(t) /\ DrfOthers
    \/ DrfFlush /\ DrfOthers
    \/ DrfDateTick /\ DrfOthers
    \/ \E t \in DrfAllThreads : DrfRotFlush(t) /\ DrfOthers
    \/ \E t \in DrfAllThreads : DrfRotPrev(t) /\ DrfOthers
    \/ \E t \in DrfAllThreads : DrfRotCreate(t) /\ DrfOthers
    \/ \E t \in DrfAllThreads : DrfRotSwapFile(t) /\ DrfOthers
    \/ \E t \in DrfAllThreads : DrfRotSwapPath(t) /\ DrfOthers
    \/ \E t \in DrfAllThreads : DrfRotSetLast(t) /\ DrfOthers
    \/ \E t \in DrfAllThreads : DrfZipCopy(t) /\ DrfOthers
    \/ \E t \in DrfAllThreads : DrfZipRemove(t) /\ DrfOthers
    \/ \E t \in DrfAllThreads : DrfCleanList(t) /\ DrfOthers
    \/ \E t \in DrfAllThreads : DrfCleanItem(t) /\ DrfOthers

InitRotateSize == DrfInitSize /\ BtIdle /\ TtIdle /\ FtIdle /\ MgIdle /\ FqIdle /\ HtIdle /\ TwIdle /\ WtIdle /\ ChIdle /\ JsIdle /\ PlIdle /\ MsIdle /\ PxIdle /\ MfIdle

InitRotateDir == DrfInitDir /\ BtIdle /\ TtIdle /\ FtIdle /\ MgIdle /\ FqIdle /\ HtIdle /\ TwIdle /\ WtIdle /\ ChIdle /\ JsIdle /\ PlIdle /\ MsIdle /\ PxIdle /\ MfIdle

InitRotateSeq == DrfInitSeq /\ BtIdle /\ TtIdle /\ FtIdle /\ MgIdle /\ FqIdle /\ HtIdle /\ TwIdle /\ WtIdle /\ ChIdle /\ JsIdle /\ PlIdle /\ MsIdle /\ PxIdle /\ MfIdle

InitMongo == MgInit /\ BtIdle /\ TtIdle /\ FtIdle /\ DrfIdle /\ FqIdle /\ HtIdle /\ TwIdle /\ WtIdle /\ ChIdle /\ JsIdle /\ PlIdle /\ MsIdle /\ PxIdle /\ MfIdle

InitQuery == FqInit /\ BtIdle /\ TtIdle /\ FtIdle /\ DrfIdle /\ MgIdle /\ HtIdle /\ TwIdle /\ WtIdle /\ ChIdle /\ JsIdle /\ PlIdle /\ MsIdle /\ PxIdle /\ MfIdle

NextQuery ==
    \/ \E query \in FqQueries : FqQuery(query) /\ FqOthers
    \/ \E levels \in {{}, {"error"}} : FqQueryNew(levels) /\ FqOthers

NextMongo ==
    \/ MgStart /\ MgOthers
    \/ MgRecvLog /\ MgOthers
    \/ MgRecvQuery /\ MgOthers
    \/ MgRecvShutdown /\ MgOthers
    \/ MgExitSignal /\ MgOthers
    \/ MgDisconnected /\ MgOthers
    \/ MgLog /\ MgOthers
    \/ MgLogBatch /\ MgOthers
    \/ MgQueryCall /\ MgOthers
    \/ MgQueryReturn /\ MgOthers
    \/ MgShutdownSend /\ MgOthers
    \/ MgShutdownStore /\ MgOthers
    \/ MgDropHandle /\ MgOthers

InitHttp == HtInit /\ BtIdle /\ DrfIdle /\ FqIdle /\ FtIdle /\ MgIdle /\ TtIdle /\ TwIdle /\ WtIdle /\ ChIdle /\ JsIdle /\ PlIdle /\ MsIdle /\ PxIdle /\ MfIdle

NextHttp ==
    \/ HtLog /\ HtOthers
    \/ HtLogBatch /\ HtOthers
    \/ HtFlush /\ HtOthers
    \/ HtIngest /\ HtOthers

InitWriter == TwInit /\ BtIdle /\ DrfIdle /\ FqIdle /\ FtIdle /\ HtIdle /\ MgIdle /\ TtIdle /\ WtIdle /\ ChIdle /\ JsIdle /\ PlIdle /\ MsIdle /\ PxIdle /\ MfIdle

NextWriter ==
    \/ \E k \in 0..TwMaxBytes : TwWrite(k) /\ TwOthers
    \/ TwFlush /\ TwOthers

InitWriterTransport == WtInit /\ BtIdle /\ DrfIdle /\ FqIdle /\ FtIdle /\ HtIdle /\ MgIdle /\ TtIdle /\ TwIdle /\ ChIdle /\ JsIdle /\ PlIdle /\ MsIdle /\ PxIdle /\ MfIdle

NextWriterTransport ==
    \/ \E t \in WtThreads, n \in 0..WtMaxBatch : WtCall(t, n) /\ WtOthers
    \/ \E t \in WtThreads : WtAcquire(t) /\ WtOthers
    \/ \E t \in WtThreads : WtWriteLine(t) /\ WtOthers

InitChain == ChInit /\ BtIdle /\ DrfIdle /\ FqIdle /\ FtIdle /\ HtIdle /\ MgIdle /\ TtIdle /\ TwIdle /\ WtIdle /\ JsIdle /\ PlIdle /\ MsIdle /\ PxIdle /\ MfIdle

NextChain ==
    \/ ChApply /\ ChOthers

InitJson == JsInit /\ BtIdle /\ ChIdle /\ DrfIdle /\ FqIdle /\ FtIdle /\ HtIdle /\ MgIdle /\ TtIdle /\ TwIdle /\ WtIdle /\ PlIdle /\ MsIdle /\ PxIdle /\ MfIdle

NextJson ==
    \/ JsTransform /\ JsOthers

InitPad == PlInit /\ BtIdle /\ ChIdle /\ DrfIdle /\ FqIdle /\ FtIdle /\ HtIdle /\ JsIdle /\ MgIdle /\ TtIdle /\ TwIdle /\ WtIdle /\ MsIdle /\ PxIdle /\ MfIdle

NextPad ==
    \/ \E levels \in PlLevelSets : PlWithLevels(levels) /\ PlOthers
    \/ \E filler \in PlFillers : PlWithFiller(filler) /\ PlOthers
    \/ \E level \in PlLevelNames \cup PlRustLevels : PlTransform(level) /\ PlOthers

InitMs == MsInit /\ BtIdle /\ ChIdle /\ DrfIdle /\ FqIdle /\ FtIdle /\ HtIdle /\ JsIdle /\ MgIdle /\ PlIdle /\ TtIdle /\ TwIdle /\ WtIdle /\ PxIdle /\ MfIdle

NextMs ==
    \/ MsTick /\ MsOthers
    \/ \E t \in MsThreads : MsTakeNow(t) /\ MsOthers
    \/ \E t \in MsThreads : MsAcquire(t) /\ MsOthers
    \/ \E t \in MsThreads : MsUpdate(t) /\ MsOthers

InitProxy == PxInit /\ BtIdle /\ ChIdle /\ DrfIdle /\ FqIdle /\ FtIdle /\ HtIdle /\ JsIdle /\ MgIdle /\ MsIdle /\ PlIdle /\ TtIdle /\ TwIdle /\ WtIdle /\ MfIdle

NextProxy ==
    \/ \E t \in PxThreads, s \in PxSinks : PxLogCall(t, s) /\ PxOthers
    \/ \E t \in PxThreads : PxLogLock(t) /\ PxOthers
    \/ \E t \in PxThreads : PxLogWrite(t) /\ PxOthers
    \/ \E t \in PxThreads, src \in PxSinks, dst \in PxSinks : PxProxyCall(t, src, dst) /\ PxOthers
    \/ \E t \in PxThreads : PxLockProxy(t) /\ PxOthers
    \/ \E t \in PxThreads : PxLockFile(t) /\ PxOthers
    \/ \E t \in PxThreads : PxFlush(t) /\ PxOthers
    \/ \E t \in PxThreads : PxRename(t) /\ PxOthers
    \/ \E t \in PxThreads : PxSwap(t) /\ PxOthers
    \/ \E t \in PxThreads : PxReadLine(t) /\ PxOthers
    \/ \E t \in PxThreads : PxIngestLock(t) /\ PxOthers
    \/ \E t \in PxThreads : PxIngest(t) /\ PxOthers

InitFilter == MfInit /\ BtIdle /\ ChIdle /\ DrfIdle /\ FqIdle /\ FtIdle /\ HtIdle /\ JsIdle /\ MgIdle /\ MsIdle /\ PlIdle /\ PxIdle /\ TtIdle /\ TwIdle /\ WtIdle

NextFilter ==
    \/ MfCompile /\ MfOthers

SpecBatch == InitBatch /\ [][NextBatch]_vars

SpecBatchTimed == InitBatchTimed /\ [][NextBatchTimed]_vars

SpecThreaded == InitThreaded /\ [][NextThreaded]_vars

SpecFile == InitFile /\ [][NextFile]_vars

\* DailyRotateFile shared by two threads
SpecRotate == InitRotate /\ [][NextRotate]_vars

\* DailyRotateFile used by one thread
SpecRotateSeq == InitRotateSeq /\ [][NextRotate]_vars

SpecRotateDir == InitRotateDir /\ [][NextRotate]_vars

SpecRotateSize == InitRotateSize /\ [][NextRotate]_vars

SpecMongo == InitMongo /\ [][NextMongo]_vars

SpecQuery == InitQuery /\ [][NextQuery]_vars

SpecHttp == InitHttp /\ [][NextHttp]_vars

SpecWriter == InitWriter /\ [][NextWriter]_vars

SpecWriterTransport == InitWriterTransport /\ [][NextWriterTransport]_vars

SpecChain == InitChain /\ [][NextChain]_vars

SpecJson == InitJson /\ [][NextJson]_vars

SpecPad == InitPad /\ [][NextPad]_vars

SpecMs == InitMs /\ [][NextMs]_vars

SpecProxy == InitProxy /\ [][NextProxy]_vars

\* every thread goes on with the call it has in progress
SpecProxyFair == SpecProxy /\ \A t \in PxThreads : WF_vars(PxStep(t) /\ PxOthers)

SpecFilter == InitFilter /\ [][NextFilter]_vars

====
